---- MODULE Spec2Model ----
(***************************************************************************)
(* Pulse backend: the in-memory rate limiter (app/core/rate_limiter.py),   *)
(* the websocket connection registry (app/websocket/manager.py), the chat  *)
(* storage operations (app/services/chat.py) and the websocket session      *)
(* handler (app/websocket/routes.py).                                       *)
(*                                                                          *)
(* Sessions are asyncio tasks: the code between two awaits runs without     *)
(* interleaving, so every action below is one such stretch, from the        *)
(* completion of the await a session is suspended at to its next await.     *)
(***************************************************************************)
EXTENDS Integers, Sequences, FiniteSets, TLC

(***************************************************************************)
(* Bounds of the model.                                                     *)
(***************************************************************************)
\* The limiter on its own: instants 0..MaxTime, limits 0..MaxLimit, windows
\* 1..MaxWindow, at most MaxCalls calls in all.
MaxTime == 4
MaxLimit == 2
MaxWindow == 2
MaxCalls == 4
\* Connections, users and conversations.
NumConns == 3
NumUsers == 3
NumConvs == 2
\* Frames a client with a free hand sends.
MaxFrames == 2
\* Detached tasks that may be outstanding when a session takes a step: with
\* more, the worker threads finish some first.
MaxPending == 1
\* Threads that call the limiter at the same time.
NumThreads == 2
\* Calls the three call sites of the limiter make in a run.
MaxFamilyCalls == 3
\* Message ids a frame may name: 1 is stored at the start, the others are
\* ids of messages sent later or of none.
MaxMessageId == 2

(***************************************************************************)
(* Program constants (rate_limiter.py:35-42).                               *)
(***************************************************************************)
LOGIN_ATTEMPT_LIMIT == 5
LOGIN_ATTEMPT_WINDOW_SECONDS == 60
WS_EVENT_LIMIT == 60
WS_EVENT_WINDOW_SECONDS == 30
MESSAGE_EVENT_LIMIT == 20
MESSAGE_EVENT_WINDOW_SECONDS == 10

Conns == 1..NumConns
Threads == 1..NumThreads
Users == 1..NumUsers
Convs == 1..NumConvs
\* Python's None for ids, timestamps and counts.
None == 0

VARIABLES
    events,               \* InMemoryRateLimiter._events: key -> deque of instants
    now,                  \* time.monotonic()
    hist,                 \* per key, the calls made so far: [t, ok]
    waiting,              \* per thread, the call of allow that has read the clock
                          \* and has not yet taken the lock
    lim, win,             \* the limit/window pair the limiter is driven with
    active_connections,   \* ConnectionManager.active_connections
    pc,                   \* where each session of chat_websocket is suspended
    sess,                 \* its locals: conversation_id, user_id, previous_connections
    closed,               \* the close frame the handler sent: [code, reason]
    alive,                \* the connection's transport is open
    bc,                   \* the broadcast pass a session is suspended in
    messages,             \* the messages table, by id
    users,                \* the users table: is_online, last_seen
    tasks,                \* detached tasks created by asyncio.create_task
    clock,                \* datetime.utcnow(), one tick per reading
    nframes,              \* inbound frames each session has consumed so far
    client,               \* what each client does: the conversation of its path,
                          \* its handshake, the frames it sends, whether it leaves
    last                  \* what the last step did (observation only)

rlvars == <<events, now, hist, lim, win, waiting>>
sysvars == <<active_connections, pc, sess, closed, alive, bc, messages, users,
             tasks, clock, nframes, client, last>>
vars == <<events, now, hist, lim, win, waiting, active_connections, pc, sess, closed,
          alive, bc, messages, users, tasks, clock, nframes, client, last>>

(***************************************************************************)
(* InMemoryRateLimiter                                                      *)
(***************************************************************************)
RECURSIVE Evict(_, _)
\* rate_limiter.py:22-23  while events and events[0] < cutoff: events.popleft()
Evict(q, cutoff) ==
    IF q # <<>> /\ Head(q) < cutoff THEN Evict(Tail(q), cutoff) ELSE q

\* self._events[key] on a defaultdict(deque): an absent key is created empty.
Lookup(ev, key) == IF key \in DOMAIN ev THEN ev[key] ELSE <<>>

Store(ev, key, q) == [k \in DOMAIN ev \cup {key} |-> IF k = key THEN q ELSE ev[k]]

Remove(ev, key) == [k \in DOMAIN ev \ {key} |-> ev[k]]

\* A bug the window contract detects: eviction with <= drops the instant that
\* lies exactly window_seconds back.
RECURSIVE EvictInclusive(_, _)
EvictInclusive(q, cutoff) ==
    IF q # <<>> /\ Head(q) <= cutoff THEN EvictInclusive(Tail(q), cutoff) ELSE q

allow_evict_inclusive(ev, key, limit, window_seconds, t) ==
    LET kept == EvictInclusive(Lookup(ev, key), t - window_seconds) IN
    IF Len(kept) >= limit
    THEN [ok |-> FALSE, events |-> Store(ev, key, kept)]
    ELSE [ok |-> TRUE, events |-> Store(ev, key, Append(kept, t))]

\* A bug the rejection claim detects: the count is compared with > and one
\* call more than the limit is admitted.
allow_one_more(ev, key, limit, window_seconds, t) ==
    LET kept == Evict(Lookup(ev, key), t - window_seconds) IN
    IF Len(kept) > limit
    THEN [ok |-> FALSE, events |-> Store(ev, key, kept)]
    ELSE [ok |-> TRUE, events |-> Store(ev, key, Append(kept, t))]

\* A bug the recording claim detects: a rejected call records its instant too,
\* so a caller that keeps calling stays blocked.
allow_records_rejected(ev, key, limit, window_seconds, t) ==
    LET kept == Evict(Lookup(ev, key), t - window_seconds) IN
    [ok |-> Len(kept) < limit, events |-> Store(ev, key, Append(kept, t))]

\* InMemoryRateLimiter.allow, the body under the lock, with now = t.  The
\* result is the returned bool and the limiter's map afterwards.
allow(ev, key, limit, window_seconds, t) ==
    LET cutoff == t - window_seconds
        kept == Evict(Lookup(ev, key), cutoff)
    IN  IF Len(kept) >= limit
        THEN [ok |-> FALSE, events |-> Store(ev, key, kept)]
        ELSE LET appended == Append(kept, t) IN
             [ok |-> TRUE,
              events |-> IF appended = <<>>
                         THEN Remove(Store(ev, key, appended), key)
                         ELSE Store(ev, key, appended)]

\* No call of allow in progress on a thread.
NoCall == [key |-> <<>>, t |-> 0, busy |-> FALSE]

\* A bug the generic-limit claim detects: one key for the frames of every
\* user.
rate_key_one_for_all(user_id) == <<"ws", None>>

\* routes.py:252  rate_key = f"ws:{user_id}"
rate_key(user_id) == <<"ws", user_id>>

\* routes.py:374  msg_key = f"msg:{conversation_id}:{user_id}"
msg_key(conversation_id, user_id) == <<"msg", conversation_id, user_id>>

Keys == {rate_key(1), msg_key(1, 1)}

(***************************************************************************)
(* ConnectionManager: the registry is a dict conversation_id -> dict       *)
(* user_id -> set of connections, modelled as functions on the keys         *)
(* present.                                                                 *)
(***************************************************************************)
\* A bug the registration claim detects: the user's set is replaced by a set
\* of the one connection instead of being added to.
connect_replaces_set(reg, conversation_id, user_id, websocket) ==
    LET conversation == IF conversation_id \in DOMAIN reg
                        THEN reg[conversation_id] ELSE <<>>
        conversation2 == [u \in DOMAIN conversation \cup {user_id} |->
                             IF u = user_id THEN {websocket} ELSE conversation[u]]
    IN  [c \in DOMAIN reg \cup {conversation_id} |->
            IF c = conversation_id THEN conversation2 ELSE reg[c]]

\* dict.setdefault(conversation_id, {}).setdefault(user_id, set()).add(websocket)
\* (manager.py:23-25; the accept of line 21 is the await the session is
\* suspended at before this runs).
connect(reg, conversation_id, user_id, websocket) ==
    LET conversation == IF conversation_id \in DOMAIN reg
                        THEN reg[conversation_id] ELSE <<>>
        user_connections == IF user_id \in DOMAIN conversation
                            THEN conversation[user_id] ELSE {}
        conversation2 == [u \in DOMAIN conversation \cup {user_id} |->
                             IF u = user_id THEN user_connections \cup {websocket}
                             ELSE conversation[u]]
    IN  [c \in DOMAIN reg \cup {conversation_id} |->
            IF c = conversation_id THEN conversation2 ELSE reg[c]]

\* A bug the registry claims detect: the connection is never taken out of its
\* user's set.
disconnect_keeps_connection(reg, conversation_id, user_id, websocket) == reg

\* A bug the idempotence claim detects: the user's entry is popped whether or
\* not its set has become empty.
disconnect_pops_user(reg, conversation_id, user_id, websocket) ==
    IF conversation_id \notin DOMAIN reg THEN reg
    ELSE LET conversation == reg[conversation_id]
             conversation2 == [u \in DOMAIN conversation \ {user_id} |-> conversation[u]]
         IN  IF DOMAIN conversation2 = {}
             THEN [c \in DOMAIN reg \ {conversation_id} |-> reg[c]]
             ELSE [reg EXCEPT ![conversation_id] = conversation2]

\* A bug the pruning invariant detects: a user's set that becomes empty stays.
disconnect_no_prune(reg, conversation_id, user_id, websocket) ==
    IF conversation_id \notin DOMAIN reg THEN reg
    ELSE IF user_id \notin DOMAIN reg[conversation_id] THEN reg
    ELSE [reg EXCEPT ![conversation_id][user_id] = @ \ {websocket}]

\* ConnectionManager.disconnect (manager.py:27-46).
disconnect(reg, conversation_id, user_id, websocket) ==
    IF conversation_id \notin DOMAIN reg \/ DOMAIN reg[conversation_id] = {}
    THEN reg                                             \* lines 31-33
    ELSE LET conversation == reg[conversation_id] IN
         IF user_id \notin DOMAIN conversation \/ conversation[user_id] = {}
         THEN reg                                        \* lines 35-37
         ELSE LET user_connections == conversation[user_id] \ {websocket}   \* 39-40
                  conversation2 ==
                      IF user_connections = {}                              \* 42-43
                      THEN [u \in DOMAIN conversation \ {user_id} |-> conversation[u]]
                      ELSE [conversation EXCEPT ![user_id] = user_connections]
              IN  IF DOMAIN conversation2 = {}                              \* 45-46
                  THEN [c \in DOMAIN reg \ {conversation_id} |-> reg[c]]
                  ELSE [reg EXCEPT ![conversation_id] = conversation2]

RECURSIVE CountIn(_, _, _)
CountIn(reg, cs, user_id) ==
    IF cs = {} THEN 0
    ELSE LET c == CHOOSE x \in cs : TRUE
             connections == IF user_id \in DOMAIN reg[c] THEN reg[c][user_id] ELSE {}
         IN  Cardinality(connections) + CountIn(reg, cs \ {c}, user_id)

\* A bug the count claim detects: the loop over the conversations stops at
\* the first one.
count_in_one_conversation(reg, user_id) ==
    IF DOMAIN reg = {} THEN 0
    ELSE CountIn(reg, {CHOOSE c \in DOMAIN reg : TRUE}, user_id)

\* ConnectionManager.get_user_connection_count (manager.py:48-57).
get_user_connection_count(reg, user_id) == CountIn(reg, DOMAIN reg, user_id)

\* The (conversation_id, user_id) buckets a connection is filed under.
Buckets(reg, websocket) ==
    {b \in Convs \X Users :
        /\ b[1] \in DOMAIN reg
        /\ b[2] \in DOMAIN reg[b[1]]
        /\ websocket \in reg[b[1]][b[2]]}

\* The connections filed under a conversation.
ConnectionsOf(reg, conversation_id) ==
    IF conversation_id \notin DOMAIN reg THEN {}
    ELSE UNION {reg[conversation_id][u] : u \in DOMAIN reg[conversation_id]}

(***************************************************************************)
(* Events sent to connections (routes.py:221-227, 262-267, 311-316,         *)
(* 359-365, 400-410, 434-441).  One record shape for all; a field an event  *)
(* type does not carry holds its default.                                   *)
(***************************************************************************)
Event(type, conversation_id, user_id, sender_id, message_id, content, is_deleted, status, ts) ==
    [type |-> type, conversation_id |-> conversation_id, user_id |-> user_id,
     sender_id |-> sender_id, message_id |-> message_id, content |-> content, is_deleted |-> is_deleted,
     status |-> status, ts |-> ts]

NoEvent == Event("", None, None, None, None, <<>>, FALSE, "", None)

(***************************************************************************)
(* A broadcast pass in progress: the dict iterator over the conversation's  *)
(* users (manager.py:68 / 92), the list(connections) snapshot of the user   *)
(* reached (69 / 95), the connection whose send is awaited (71 / 97) and    *)
(* the disconnected list (67 / 91).                                         *)
(*   size0, yielded, seen: the dict iterator: the size of the dict when the *)
(*     loop began, how many keys it has yielded, which present keys it has  *)
(*     passed;                                                              *)
(*   stale: the conversation's dict was popped from the registry while the  *)
(*     pass holds a reference to it (it is empty from then on);             *)
(*   got, start: the connections a send succeeded on, and those filed under *)
(*     the conversation when the pass began (observation only);             *)
(*   caller: the place in chat_websocket that awaits the pass.              *)
(***************************************************************************)
IdleBc ==
    [status |-> "idle", conv |-> None, ev |-> NoEvent, exclude |-> None,
     size0 |-> 0, yielded |-> 0, seen |-> {}, stale |-> FALSE,
     curU |-> None, cur |-> None, pending |-> {}, disconnected |-> {},
     got |-> {}, start |-> {}, caller |-> ""]

\* What is kept of a pass once it has returned ("done") or raised.
FinishedBc(b, status) ==
    [IdleBc EXCEPT !.status = status, !.conv = b.conv, !.ev = b.ev,
                   !.exclude = b.exclude, !.got = b.got, !.start = b.start,
                   !.caller = b.caller, !.disconnected = b.disconnected]

RECURSIVE AdvanceSet(_, _)
\* The outer loop asks the dict iterator for the next user (manager.py:68 /
\* 92-94).  CPython's iterator raises RuntimeError when the dict's size differs
\* from the size at the start of the loop, or when it finds a further entry
\* after having yielded that many; it stops when no entry is left.  Which of
\* the entries not yet passed comes next, and which connection of a set comes
\* first, is left open.
AdvanceSet(b, reg) ==
    IF b.stale THEN {[b EXCEPT !.status = "raised"]}
    ELSE LET conversation == reg[b.conv]
             rest == DOMAIN conversation \ b.seen
         IN  IF Cardinality(DOMAIN conversation) # b.size0
             THEN {[b EXCEPT !.status = "raised"]}
             ELSE IF rest = {} THEN {[b EXCEPT !.status = "done"]}
             ELSE IF b.yielded = b.size0 THEN {[b EXCEPT !.status = "raised"]}
             ELSE UNION {
                    LET b1 == [b EXCEPT !.seen = @ \cup {u}, !.yielded = @ + 1] IN
                    IF b.exclude # None /\ u = b.exclude
                    THEN AdvanceSet(b1, reg)
                    ELSE {[b1 EXCEPT !.status = "run", !.curU = u, !.cur = x,
                                     !.pending = conversation[u] \ {x}]
                          : x \in conversation[u]}
                    : u \in rest}

\* The next send of the pass once the awaited one has completed: the next
\* connection of the snapshot, else the next user.
NextSendSet(b, reg) ==
    IF b.pending # {}
    THEN {[b EXCEPT !.cur = x, !.pending = @ \ {x}] : x \in b.pending}
    ELSE AdvanceSet(b, reg)

\* A bug the conversation-boundary claim detects: the pass walks the first
\* conversation of the registry, whatever the conversation of the event.
NewPass_first_conversation(reg, conversation_id, ev, exclude_user_id, caller) ==
    LET first == CHOOSE c \in DOMAIN reg : \A d \in DOMAIN reg : c <= d IN
    [IdleBc EXCEPT !.status = "run", !.conv = first, !.ev = ev,
                   !.exclude = exclude_user_id,
                   !.size0 = Cardinality(DOMAIN reg[first]),
                   !.start = ConnectionsOf(reg, first),
                   !.caller = caller]

\* manager.py:63-67 / 87-91: the pass begins.
NewPass(reg, conversation_id, ev, exclude_user_id, caller) ==
    [IdleBc EXCEPT !.status = "run", !.conv = conversation_id, !.ev = ev,
                   !.exclude = exclude_user_id,
                   !.size0 = Cardinality(DOMAIN reg[conversation_id]),
                   !.start = ConnectionsOf(reg, conversation_id),
                   !.caller = caller]

RECURSIVE DisconnectAll(_, _, _)
\* manager.py:75-76 / 101-102.
DisconnectAll(reg, conversation_id, disconnected) ==
    IF disconnected = {} THEN reg
    ELSE LET d == CHOOSE x \in disconnected : TRUE IN
         DisconnectAll(disconnect(reg, conversation_id, d[1], d[2]),
                       conversation_id, disconnected \ {d})

\* What a change of the registry does to a pass another session is suspended
\* in: a user popped from the conversation's dict is no longer an entry the
\* iterator has passed, and a popped conversation leaves the pass with an
\* empty dict of its own.
Adjust(b, reg) ==
    IF b.status # "run" \/ b.stale THEN b
    ELSE IF b.conv \notin DOMAIN reg THEN [b EXCEPT !.stale = TRUE]
    ELSE [b EXCEPT !.seen = @ \cap DOMAIN reg[b.conv]]

(***************************************************************************)
(* ChatService and the tables it reads and writes.                          *)
(***************************************************************************)
\* The conversation_users table: every user takes part in every conversation,
\* except the last user in the last conversation.
conversation_users ==
    {p \in Convs \X Users : ~(p[1] = NumConvs /\ p[2] = NumUsers)}

\* A bug the participation claim detects: any user of a known conversation
\* passes.
user_in_conversation_anyone(conversation_id, user_id) == conversation_id \in Convs

\* ChatService.user_in_conversation (chat.py:97-111).
user_in_conversation(conversation_id, user_id) ==
    <<conversation_id, user_id>> \in conversation_users

\* User.username of the row read at routes.py:197-202.
Username(user_id) == <<"user", user_id>>

RECURSIVE LStrip(_)
LStrip(s) == IF s # <<>> /\ Head(s) = " " THEN LStrip(Tail(s)) ELSE s

RECURSIVE RStrip(_)
RStrip(s) ==
    IF s # <<>> /\ s[Len(s)] = " " THEN RStrip(SubSeq(s, 1, Len(s) - 1)) ELSE s

\* str.strip() on a string held as its sequence of characters.
strip(s) == RStrip(LStrip(s))

\* A bug the delivered claim detects: the row is created as delivered.
create_message_delivered(msgs, conversation_id, sender_id, content) ==
    Append(msgs, [conversation_id |-> conversation_id, sender_id |-> sender_id,
                  content |-> content, is_edited |-> FALSE, is_deleted |-> FALSE,
                  delivered_at |-> 1, read_at |-> None, updated_at |-> None])

\* ChatService.create_message (chat.py:58-75): the row added; its id is its
\* place in the table.
create_message(msgs, conversation_id, sender_id, content) ==
    Append(msgs, [conversation_id |-> conversation_id, sender_id |-> sender_id,
                  content |-> content, is_edited |-> FALSE, is_deleted |-> FALSE,
                  delivered_at |-> None, read_at |-> None, updated_at |-> None])

\* A bug the deletion claim detects: the update writes the whole row back as
\* it stood before the deletion.
mark_message_delivered_undeletes(msgs, message_id, delivered_at) ==
    IF message_id \in 1..Len(msgs)
    THEN [msgs EXCEPT ![message_id].delivered_at = delivered_at,
                      ![message_id].is_deleted = FALSE]
    ELSE msgs

\* ChatService.mark_message_delivered (chat.py:156-172).
mark_message_delivered(msgs, message_id, delivered_at) ==
    IF message_id \in 1..Len(msgs)
    THEN [msgs EXCEPT ![message_id].delivered_at = delivered_at]
    ELSE msgs

\* A bug the conversation-scope claim detects: the select looks for the id
\* alone.
FindInAnyConversation(msgs, message_id, conversation_id) ==
    IF message_id \in 1..Len(msgs) THEN message_id ELSE None

\* The select of chat.py:182-187: the message with that id in that conversation.
FindInConversation(msgs, message_id, conversation_id) ==
    IF message_id \in 1..Len(msgs) /\ msgs[message_id].conversation_id = conversation_id
    THEN message_id ELSE None

\* ChatService.mark_message_read (chat.py:175-195): the table afterwards and
\* the message returned (None when there is none).
mark_message_read(msgs, message_id, conversation_id, read_at) ==
    LET message == FindInConversation(msgs, message_id, conversation_id) IN
    IF message # None
    THEN [messages |-> [msgs EXCEPT ![message].read_at = read_at], message |-> message]
    ELSE [messages |-> msgs, message |-> None]

\* A bug the ownership claim detects: the requester is not compared with the
\* sender.
soft_delete_any_requester(msgs, message_id, requester_id, conversation_id, t) ==
    LET message == FindInConversation(msgs, message_id, conversation_id) IN
    IF message = None
    THEN [status |-> "not_found", messages |-> msgs, message |-> None]
    ELSE [status |-> "ok",
          messages |-> [msgs EXCEPT ![message].is_deleted = TRUE,
                                    ![message].content = <<>>,
                                    ![message].updated_at = t],
          message |-> message]

\* ChatService.soft_delete_message (chat.py:198-223), called with a
\* conversation_id; t is the datetime.utcnow() of line 218.
soft_delete_message(msgs, message_id, requester_id, conversation_id, t) ==
    LET message == FindInConversation(msgs, message_id, conversation_id) IN
    IF message = None
    THEN [status |-> "not_found", messages |-> msgs, message |-> None]
    ELSE IF msgs[message].sender_id # requester_id
    THEN [status |-> "forbidden", messages |-> msgs, message |-> None]
    ELSE [status |-> "ok",
          messages |-> [msgs EXCEPT ![message].is_deleted = TRUE,
                                    ![message].content = <<>>,
                                    ![message].updated_at = t],
          message |-> message]

\* How the database behaves during one handler: it works; a statement raises
\* before anything is committed; or the commit succeeds and the refresh that
\* follows it (chat.py:73, 170, 193, 221) raises.
DbOutcomes == {"works", "fails", "fails_after_commit"}

\* _handle_message_read._update (routes.py:105-129); t is the utcnow() of
\* line 115, db_fails what the database does.
handle_message_read(msgs, conversation_id, user_id, message_id, t, db_fails) ==
    IF db_fails = "fails" THEN [status |-> "error", read_at |-> None, messages |-> msgs]
    ELSE IF ~user_in_conversation(conversation_id, user_id)
    THEN [status |-> "forbidden", read_at |-> None, messages |-> msgs]
    ELSE LET r == mark_message_read(msgs, message_id, conversation_id, t) IN
         IF r.message = None
         THEN [status |-> "not_found", read_at |-> None, messages |-> msgs]
         ELSE IF db_fails = "fails_after_commit"
         THEN [status |-> "error", read_at |-> None, messages |-> r.messages]
         ELSE [status |-> "ok",
               read_at |-> IF r.messages[r.message].read_at # None
                           THEN r.messages[r.message].read_at ELSE t,
               messages |-> r.messages]

\* _handle_message_delete._update (routes.py:139-169).
handle_message_delete(msgs, conversation_id, user_id, message_id, t, db_fails) ==
    IF db_fails = "fails" THEN [status |-> "error", message |-> None, messages |-> msgs]
    ELSE IF ~user_in_conversation(conversation_id, user_id)
    THEN [status |-> "forbidden", message |-> None, messages |-> msgs]
    ELSE LET r == soft_delete_message(msgs, message_id, user_id, conversation_id, t) IN
         IF r.status # "ok"
         THEN [status |-> r.status, message |-> None, messages |-> msgs]
         ELSE IF db_fails = "fails_after_commit"
         THEN [status |-> "error", message |-> None, messages |-> r.messages]
         ELSE [status |-> "ok", message |-> r.message, messages |-> r.messages]

\* A bug the last_seen claim detects: marking a user online clears last_seen.
set_user_presence_clears(rows, user_id, is_online, last_seen, t) ==
    IF user_id \notin DOMAIN rows THEN rows
    ELSE [rows EXCEPT ![user_id] =
            [is_online |-> is_online,
             last_seen |-> IF ~is_online
                           THEN (IF last_seen # None THEN last_seen ELSE t)
                           ELSE None]]

\* _set_user_presence._update (routes.py:81-95); t is the utcnow() of line 89.
set_user_presence(rows, user_id, is_online, last_seen, t) ==
    IF user_id \notin DOMAIN rows THEN rows
    ELSE [rows EXCEPT ![user_id] =
            [is_online |-> is_online,
             last_seen |-> IF ~is_online
                           THEN (IF last_seen # None THEN last_seen ELSE t)
                           ELSE @.last_seen]]

(***************************************************************************)
(* chat_websocket: one session per connection.                              *)
(*                                                                          *)
(* pc: "init" (the client has not connected), "accepting" (suspended in     *)
(* manager.connect at websocket.accept(), line 213 / manager.py:21),        *)
(* "bcast" (suspended at a send_json of a broadcast pass), "recv"           *)
(* (suspended at receive_json, line 237), "closed" (the handler closed the  *)
(* connection before accepting it and returned), "done" (the handler        *)
(* returned after its exit path), "crashed" (an exception left the handler).*)
(***************************************************************************)
NoSess == [conversation_id |-> None, user_id |-> None, previous_connections |-> 0]

NoClose == [code |-> "", reason |-> ""]

\* What a step did: the frame handled (its type, the handler's status, the
\* message id it named), the error detail sent back to the acting connection,
\* the presence status it began to broadcast about the session's user, and the
\* pass the session was awaiting if that pass ended in this step, and the
\* buckets its connection was filed under when the step began.
Obs(act, conn, type, status, mid, reply, presence, pass, filed) ==
    [act |-> act, conn |-> conn, type |-> type, status |-> status, mid |-> mid,
     reply |-> reply, presence |-> presence, pass |-> pass, filed |-> filed]

NoObs == Obs("", None, "", "", None, "", "", IdleBc, {})

PresenceTask(user_id, is_online, last_seen) ==
    [kind |-> "presence", user_id |-> user_id, is_online |-> is_online,
     last_seen |-> last_seen, message_id |-> None]

DeliveredTask(message_id) ==
    [kind |-> "delivered", user_id |-> None, is_online |-> FALSE,
     last_seen |-> None, message_id |-> message_id]

\* The shared state a stretch of code works on, and what it leaves behind for
\* the session: its next suspension point, its pass, the error detail it sent
\* to its own connection.
Outcome(pcv, b, st, reply) ==
    [pc |-> pcv, bc |-> b, reg |-> st.reg, tasks |-> st.tasks, clock |-> st.clock,
     presence |-> st.presence, fin |-> st.fin, reply |-> reply]

Here ==
    [reg |-> active_connections, tasks |-> tasks, clock |-> clock, presence |-> "",
     fin |-> IdleBc]

RECURSIVE RunFrom(_, _, _)
RECURSIVE Continue(_, _, _, _)
RECURSIVE Cleanup(_, _)
RECURSIVE StartPass(_, _, _, _, _)

\* A bug the sequential-handling claim detects: the pass is not awaited, and
\* the session returns to its receive while the pass has sends to make.
RunFrom_not_awaited(w, bs, st) ==
    UNION {
        IF b.status = "run" THEN {Outcome("recv", b, st, "")}
        ELSE IF b.status = "done"
        THEN Continue(w, b, "done",
                      [st EXCEPT !.reg = DisconnectAll(st.reg, b.conv, b.disconnected)])
        ELSE Continue(w, b, "raised", st)
        : b \in bs}

\* The pass goes on to its next send, or ends: it deregisters the connections
\* whose send failed and returns (manager.py:75-76 / 101-102), or the dict
\* iterator's RuntimeError leaves it.
RunFrom(w, bs, st) ==
    UNION {
        IF b.status = "run" THEN {Outcome("bcast", b, st, "")}
        ELSE IF b.status = "done"
        THEN Continue(w, b, "done",
                      [st EXCEPT !.reg = DisconnectAll(st.reg, b.conv, b.disconnected)])
        ELSE Continue(w, b, "raised", st)
        : b \in bs}

\* What chat_websocket does when the pass it awaits returns or raises.
\*   "online"  (routes.py:228): outside every try; the loop follows.
\*   "typing", "delete", "read" (268, 317, 366): inside the outer try only, so
\*             an exception reaches the handlers of lines 423-470.
\*   "message" (411): inside the try of line 393; on return the delivered
\*             update is detached (415); the except of 416 sends an error.
\*   "offline" (442 / 466): the last statement of the exit path.
Continue(w, b, how, st0) ==
    LET st == IF st0.fin.status = "idle"
              THEN [st0 EXCEPT !.fin = FinishedBc(b, how)] ELSE st0
    IN
    IF b.caller = "online"
    THEN {Outcome(IF how = "done" THEN "recv" ELSE "crashed", IdleBc, st, "")}
    ELSE IF b.caller \in {"typing", "delete", "read"}
    THEN IF how = "done" THEN {Outcome("recv", IdleBc, st, "")} ELSE Cleanup(w, st)
    ELSE IF b.caller = "message"
    THEN IF how = "done"
         THEN {Outcome("recv", IdleBc,
                       [st EXCEPT !.tasks = @ \cup {DeliveredTask(b.ev.message_id)}], "")}
         ELSE IF alive[w]
         THEN {Outcome("recv", IdleBc, st, "Failed to send message")}
         ELSE Cleanup(w, st)
    ELSE {Outcome(IF how = "done" THEN "done" ELSE "crashed", IdleBc, st, "")}

\* The exit path, the same in both handlers (routes.py:423-446 and 447-470).
Cleanup(w, st) ==
    LET conversation_id == sess[w].conversation_id
        user_id == sess[w].user_id
        reg2 == disconnect(st.reg, conversation_id, user_id, w)
    IN  IF get_user_connection_count(reg2, user_id) = 0
        THEN LET last_seen == st.clock + 1 IN
             StartPass(w,
                       Event("presence", conversation_id, user_id, None, None, <<>>,
                             FALSE, "offline", last_seen),
                       user_id, "offline",
                       [reg |-> reg2,
                        tasks |-> st.tasks \cup {PresenceTask(user_id, FALSE, last_seen)},
                        clock |-> last_seen,
                        presence |-> "offline",
                        fin |-> st.fin])
        ELSE {Outcome("done", IdleBc, [st EXCEPT !.reg = reg2], "")}

\* ConnectionManager.broadcast / broadcast_except up to the first await
\* (manager.py:63-71 / 87-97).
StartPass(w, ev, exclude_user_id, caller, st) ==
    IF ev.conversation_id \notin DOMAIN st.reg
    THEN Continue(w, [IdleBc EXCEPT !.conv = ev.conversation_id, !.ev = ev,
                                    !.exclude = exclude_user_id, !.caller = caller],
                  "done", st)
    ELSE RunFrom(w, AdvanceSet(NewPass(st.reg, ev.conversation_id, ev,
                                       exclude_user_id, caller), st.reg), st)

\* ConnectionManager.broadcast (manager.py:59-76), awaited by session w.
broadcast(w, ev, caller, st) == StartPass(w, ev, None, caller, st)

\* A bug the presence claim detects: the excluded user is not skipped.
broadcast_except_nobody(w, ev, exclude_user_id, caller, st) ==
    StartPass(w, ev, None, caller, st)

\* ConnectionManager.broadcast_except (manager.py:78-102), awaited by session w.
broadcast_except(w, ev, exclude_user_id, caller, st) ==
    StartPass(w, ev, exclude_user_id, caller, st)

\* The session's step takes effect.  A handler that has returned or raised
\* leaves the server to close the transport.
Apply(w, o) ==
    /\ pc' = [pc EXCEPT ![w] = o.pc]
    /\ bc' = [x \in Conns |-> IF x = w THEN o.bc ELSE Adjust(bc[x], o.reg)]
    /\ active_connections' = o.reg
    /\ tasks' = o.tasks
    /\ clock' = o.clock
    /\ alive' = IF o.pc \in {"done", "crashed", "closed"}
                THEN [alive EXCEPT ![w] = FALSE] ELSE alive

(***************************************************************************)
(* The handshake: tokens and where they are carried.                        *)
(***************************************************************************)
\* A token: whether jwt.decode accepts it (signature and expiry), and the
\* "type" and "sub" of its payload.
Token(decodes, type, sub) == [present |-> TRUE, decodes |-> decodes, type |-> type, sub |-> sub]

NoToken == [present |-> FALSE, decodes |-> FALSE, type |-> "", sub |-> None]

\* An Authorization header: how many whitespace-separated parts it has (0:
\* no header), the first and the second.
Header(parts, scheme, credentials) ==
    [parts |-> parts, scheme |-> scheme, credentials |-> credentials]

Lower(s) == IF s \in {"Bearer", "BEARER", "bearer"} THEN "bearer" ELSE s

(***************************************************************************)
(* The inbound frames a client may send: text that is not JSON, JSON that   *)
(* is not an object, and objects with the fields the handler reads.         *)
(***************************************************************************)
Frame(kind, type, message_id, id, has_content, content) ==
    [kind |-> kind, type |-> type, message_id |-> message_id, id |-> id,
     has_content |-> has_content, content |-> content]

Malformed ==
    {Frame("bad_json", "", None, None, FALSE, <<>>),
     Frame("non_object", "", None, None, FALSE, <<>>)}

Typing(type) == Frame("object", type, None, None, FALSE, <<>>)

\* A message_delete or message_read frame naming the message by "message_id"
\* (0: the field is absent or falsy) or by "id".
About(type, message_id) == Frame("object", type, message_id, None, FALSE, <<>>)

AboutById(type, id) == Frame("object", type, None, id, FALSE, <<>>)

\* A frame with content; type "" is a frame without a "type".
Text(type, content) == Frame("object", type, None, None, TRUE, content)

NoContent(type) == Frame("object", type, None, None, FALSE, <<>>)

Frames ==
    Malformed
    \cup {Typing(t) : t \in {"typing_start", "typing_stop"}}
    \cup {About(t, m) : t \in {"message_delete", "message_read"}, m \in 0..MaxMessageId}
    \cup {AboutById("message_delete", 1)}
    \cup {NoContent(t) : t \in {"", "message", "reaction"}}
    \cup {Text(t, s) : t \in {"", "message", "reaction"}, s \in {<<" ">>, <<" ", "b", " ">>}}

QueryToken(token) == [query |-> token, header |-> Header(0, "", NoToken)]

BearerHeader(token) == [query |-> NoToken, header |-> Header(2, "Bearer", token)]

AccessToken(user_id) == Token(TRUE, "access", user_id)

\* Handshakes that carry no usable access token: no token at all, a header
\* that is not a two-part Bearer header, a token that does not decode (bad
\* signature or expired), a refresh token, an access token with no subject.
BadHandshakes ==
    {QueryToken(NoToken),
     [query |-> NoToken, header |-> Header(2, "Basic", AccessToken(1))],
     [query |-> NoToken, header |-> Header(1, "Bearer", NoToken)],
     QueryToken(Token(FALSE, "access", 1)),
     QueryToken(Token(TRUE, "refresh", 1)),
     QueryToken(Token(TRUE, "access", None))}

(***************************************************************************)
(* The clients of a run: for each connection, the conversation of its path  *)
(* and its handshake.                                                       *)
(***************************************************************************)
Client(conversation_id, handshake, frames, budget, leaves) ==
    [conversation_id |-> conversation_id, handshake |-> handshake, frames |-> frames,
     budget |-> budget, leaves |-> leaves]

Wrap(i, n) == ((i - 1) % n) + 1

\* Every connection a different user, all in conversation 1.  The author of
\* message 1 writes or deletes, the second user tries to delete, the others
\* come and go.
FanOut ==
    [w \in Conns |->
        Client(1, QueryToken(AccessToken(Wrap(w, NumUsers))),
               IF w = 1
               THEN {Text("message", <<" ", "b", " ">>), About("message_delete", 1)}
               ELSE {About("message_delete", 1)},
               IF w <= 2 THEN 1 ELSE 0,
               w > 2)]

\* Connections 1 and 2 read message 1 as different users of conversation 1.
Readers ==
    [w \in Conns |->
        IF w <= 2
        THEN Client(1, BearerHeader(AccessToken(w)), {About("message_read", 1)},
                    MaxFrames - 1, FALSE)
        ELSE Client(1, QueryToken(NoToken), {}, 0, FALSE)]

\* Two connections of user 1 and the others of user 2, all in conversation 1;
\* they come and go and send nothing.
TwoDevices ==
    [w \in Conns |->
        Client(1, QueryToken(AccessToken(IF w <= 2 THEN 1 ELSE 2)), {}, 0, TRUE)]

\* User 1 in conversation 1 and in conversation 2, user 2 beside it.
TwoConversations ==
    [w \in Conns |->
        Client(Wrap(w, NumConvs), BearerHeader(AccessToken(IF w <= 2 THEN 1 ELSE 2)),
               {Text("", <<" ", "b", " ">>), Typing("typing_stop")},
               IF w = 1 THEN 1 ELSE 0, w > 1)]

\* In the last conversation: a participant that may send any frame, the user
\* that is no participant, and clients with handshake h.
Gate(h) ==
    [w \in Conns |->
        IF w = 1 THEN Client(NumConvs, QueryToken(AccessToken(1)), Frames, MaxFrames, TRUE)
        ELSE IF w = 2
        THEN Client(NumConvs, QueryToken(AccessToken(NumUsers)), Frames, MaxFrames, TRUE)
        ELSE Client(NumConvs, h, Frames, MaxFrames, TRUE)]

Clients ==
    {FanOut, Readers, TwoDevices, TwoConversations} \cup {Gate(h) : h \in BadHandshakes}

\* A bug the handshake claim detects: the scheme of the Authorization header
\* is not looked at, so "Basic <credentials>" is taken for a bearer token.
extract_token_any_scheme(h) ==
    IF h.query.present THEN h.query
    ELSE IF h.header.parts = 2 THEN h.header.credentials
    ELSE NoToken

\* _extract_token (routes.py:31-44).
extract_token(h) ==
    IF h.query.present THEN h.query
    ELSE IF h.header.parts = 0 THEN NoToken
    ELSE IF h.header.parts = 2 /\ Lower(h.header.scheme) = "bearer"
    THEN h.header.credentials
    ELSE NoToken

\* _get_user_id_from_token (routes.py:47-52) over decode_token
\* (security.py:103-113).
get_user_id_from_token(token) ==
    IF ~token.decodes \/ token.type # "access" THEN None ELSE token.sub

(***************************************************************************)
(* Session actions.                                                         *)
(***************************************************************************)
\* routes.py:176-213: from the call of the handler to the await of
\* websocket.accept().  A user that takes part in a conversation has a row
\* in users, so line 199 is not reached.  A database error reaches the except
\* of line 203, where `status` is the handler's own local (assigned at lines
\* 284 and 332) and not yet bound: the UnboundLocalError leaves the handler.
Start(w) ==
    /\ pc[w] = "init"
    /\ Cardinality(tasks) <= MaxPending
    /\ \E db_fails \in BOOLEAN :
         LET c == client[w].conversation_id
             token == extract_token(client[w].handshake)
             user_id == IF token.present THEN get_user_id_from_token(token) ELSE None
             Close(reason) ==
                 /\ pc' = [pc EXCEPT ![w] = "closed"]
                 /\ closed' = [closed EXCEPT ![w] =
                                  [code |-> "WS_1008_POLICY_VIOLATION", reason |-> reason]]
                 /\ alive' = [alive EXCEPT ![w] = FALSE]
         IN  IF ~token.present
             THEN /\ ~db_fails
                  /\ Close("Missing authentication token")
                  /\ UNCHANGED sess
             ELSE IF user_id = None
             THEN /\ ~db_fails
                  /\ Close("Invalid or expired token")
                  /\ UNCHANGED sess
             ELSE IF db_fails
             THEN /\ pc' = [pc EXCEPT ![w] = "crashed"]
                  /\ alive' = [alive EXCEPT ![w] = FALSE]
                  /\ UNCHANGED <<closed, sess>>
             ELSE IF ~user_in_conversation(c, user_id)
             THEN /\ Close("Not a participant in this conversation")
                  /\ sess' = [sess EXCEPT ![w] = [conversation_id |-> c, user_id |-> user_id,
                                                  previous_connections |-> 0]]
             ELSE /\ pc' = [pc EXCEPT ![w] = "accepting"]
                  /\ sess' = [sess EXCEPT ![w] =
                        [conversation_id |-> c, user_id |-> user_id,
                         previous_connections |->
                             get_user_connection_count(active_connections, user_id)]]
                  /\ UNCHANGED <<closed, alive>>
    /\ last' = NoObs
    /\ UNCHANGED <<rlvars, active_connections, bc, messages, users, tasks, clock, nframes,
                   client>>

\* manager.py:23-25 and routes.py:219-237: the accept has completed; the
\* connection is filed, the online presence is detached and broadcast when the
\* count read before the accept was 0, and the loop begins.
Accept(w) ==
    /\ pc[w] = "accepting"
    /\ Cardinality(tasks) <= MaxPending
    /\ LET conversation_id == sess[w].conversation_id
           user_id == sess[w].user_id
           reg2 == connect(active_connections, conversation_id, user_id, w)
       IN  \E o \in
             IF sess[w].previous_connections = 0
             THEN broadcast_except(w,
                      Event("presence", conversation_id, user_id, None, None, <<>>,
                            FALSE, "online", None),
                      user_id, "online",
                      [reg |-> reg2,
                       tasks |-> tasks \cup {PresenceTask(user_id, TRUE, None)},
                       clock |-> clock,
                       presence |-> "online",
                       fin |-> IdleBc])
             ELSE {Outcome("recv", IdleBc, [Here EXCEPT !.reg = reg2], "")} :
             /\ Apply(w, o)
             /\ last' = Obs("accept", w, "", "", None, o.reply, o.presence, o.fin,
                            Buckets(active_connections, w))
    /\ UNCHANGED <<rlvars, sess, closed, messages, users, nframes, client>>

\* manager.py:70-73 / 96-99: the awaited send_json completes, or raises when
\* the target's transport is closed; the pass goes on.
BcStep(w) ==
    /\ pc[w] = "bcast"
    /\ Cardinality(tasks) <= MaxPending
    /\ LET b == bc[w]
           b1 == IF alive[b.cur]
                 THEN [b EXCEPT !.got = @ \cup {b.cur}]
                 ELSE [b EXCEPT !.disconnected = @ \cup {<<b.curU, b.cur>>}]
       IN  \E o \in RunFrom(w, NextSendSet(b1, active_connections), Here) :
             /\ Apply(w, o)
             /\ last' = IF o.reply = "" /\ o.presence = "" /\ o.fin.status = "idle"
                        THEN NoObs
                        ELSE Obs("step", w, "", "", None, o.reply, o.presence, o.fin,
                                 Buckets(active_connections, w))
    /\ UNCHANGED <<rlvars, sess, closed, messages, users, nframes, client>>

\* The frames whose handling reaches the database.
UsesDb(f) ==
    /\ f.kind = "object"
    /\ f.type \notin {"typing_start", "typing_stop"}
    /\ \/ f.type \in {"message_delete", "message_read"} /\ (f.message_id # None \/ f.id # None)
       \/ f.type \notin {"message_delete", "message_read"} /\ f.has_content /\ strip(f.content) # <<>>

Result(o, msgs, ev, type, status, mid) ==
    [pc |-> o.pc, bc |-> o.bc, reg |-> o.reg, tasks |-> o.tasks, clock |-> o.clock,
     presence |-> o.presence, fin |-> o.fin, reply |-> o.reply,
     messages |-> msgs, events |-> ev, type |-> type, status |-> status, mid |-> mid]

\* An error event sent to the acting connection alone; the loop continues.
Reply(detail, msgs, ev, type, status, mid) ==
    {Result(Outcome("recv", IdleBc, Here, detail), msgs, ev, type, status, mid)}

\* A bug the malformed-frame claim detects: the ValueError of receive_json
\* is not caught inside the loop and the session takes its exit path.
malformed_ends_session(w, f) ==
    {Result(o, messages, events, "", "invalid", None) : o \in Cleanup(w, Here)}

\* routes.py:236-250: a frame that is not JSON, or is JSON but no object, is
\* answered with an error event and the loop continues.
reject_malformed(w, f) ==
    IF f.kind = "bad_json"
    THEN Reply("Invalid JSON payload", messages, events, "", "invalid", None)
    ELSE Reply("Invalid message format", messages, events, "", "invalid", None)

\* routes.py:238-422: one inbound frame, from the return of receive_json to
\* the session's next await.  The calls run in a worker thread
\* (_handle_message_read, _handle_message_delete) are one database
\* transaction each and touch nothing else, so they are taken together with
\* the stretch that awaits them.
HandleFrame(w, f, db_fails) ==
    LET conversation_id == sess[w].conversation_id
        user_id == sess[w].user_id
        g == allow(events, rate_key(user_id), WS_EVENT_LIMIT, WS_EVENT_WINDOW_SECONDS, now)
        message_type == IF f.type = "" THEN "message" ELSE f.type          \* 260
        message_id == IF f.message_id # None THEN f.message_id ELSE f.id   \* 276 / 324
        t == clock + 1
    IN
    IF f.kind \in {"bad_json", "non_object"}                               \* 238-250
    THEN reject_malformed(w, f)
    ELSE IF ~g.ok                                                          \* 252-258
    THEN Reply("Rate limit exceeded. Please slow down.", messages, g.events,
               message_type, "rate_limited", None)
    ELSE IF message_type \in {"typing_start", "typing_stop"}               \* 261-273
    THEN {Result(o, messages, g.events, message_type, "ok", None)
          : o \in broadcast_except(w,
                     Event(message_type, conversation_id, user_id, user_id, None, <<>>,
                           FALSE, "", None),
                     user_id, "typing", Here)}
    ELSE IF message_type = "message_delete"                                \* 275-321
    THEN IF message_id = None
         THEN Reply("Message ID is required", messages, g.events, message_type,
                    "invalid", None)
         ELSE LET r == handle_message_delete(messages, conversation_id, user_id,
                                             message_id, t, db_fails)
              IN  IF r.status = "forbidden"
                  THEN Reply("Not authorized to delete this message", r.messages,
                             g.events, message_type, r.status, message_id)
                  ELSE IF r.status = "not_found"
                  THEN Reply("Message not found", r.messages, g.events, message_type,
                             r.status, message_id)
                  ELSE IF r.status # "ok"
                  THEN Reply("Failed to delete message", r.messages, g.events,
                             message_type, r.status, message_id)
                  ELSE {Result(o, r.messages, g.events, message_type, "ok", message_id)
                        : o \in broadcast(w,
                                   Event("message_delete", conversation_id, user_id,
                                         r.messages[r.message].sender_id, r.message,
                                         r.messages[r.message].content,
                                         r.messages[r.message].is_deleted, "",
                                         r.messages[r.message].updated_at),
                                   "delete", [Here EXCEPT !.clock = t])}
    ELSE IF message_type = "message_read"                                  \* 323-371
    THEN IF message_id = None
         THEN Reply("Message ID is required", messages, g.events, message_type,
                    "invalid", None)
         ELSE LET r == handle_message_read(messages, conversation_id, user_id,
                                           message_id, t, db_fails)
              IN  IF r.status = "forbidden"
                  THEN Reply("Not authorized to read this message", r.messages,
                             g.events, message_type, r.status, message_id)
                  ELSE IF r.status = "not_found"
                  THEN {Result(Outcome("recv", IdleBc, [Here EXCEPT !.clock = t],
                                       "Message not found"),
                               r.messages, g.events, message_type, r.status, message_id)}
                  ELSE IF r.status # "ok" \/ r.read_at = None
                  THEN Reply("Failed to mark message as read", r.messages, g.events,
                             message_type, r.status, message_id)
                  ELSE {Result(o, r.messages, g.events, message_type, "ok", message_id)
                        : o \in broadcast_except(w,
                                   Event("message_read", conversation_id, user_id, None,
                                         message_id, <<>>, FALSE, "", r.read_at),
                                   user_id, "read", [Here EXCEPT !.clock = t])}
    ELSE LET m == IF message_type = "message"                              \* 373-380
                  THEN allow(g.events, msg_key(conversation_id, user_id),
                             MESSAGE_EVENT_LIMIT, MESSAGE_EVENT_WINDOW_SECONDS, now)
                  ELSE [ok |-> TRUE, events |-> g.events]
         IN  IF ~m.ok
             THEN Reply("Too many messages. Please slow down.", messages, m.events,
                        message_type, "rate_limited", None)
             ELSE IF ~f.has_content \/ strip(f.content) = <<>>             \* 382-388
             THEN Reply("Message content is required", messages, m.events,
                        message_type, "invalid", None)
             ELSE IF db_fails = "fails"                                    \* 416-420
             THEN Reply("Failed to send message", messages, m.events, message_type,
                        "error", None)
             ELSE LET msgs2 == create_message(messages, conversation_id, user_id,
                                              strip(f.content))            \* 390-399
                      id == Len(msgs2)
                  IN  IF db_fails = "fails_after_commit"
                      THEN Reply("Failed to send message", msgs2, m.events, message_type,
                                 "error", id)
                      ELSE
                      {Result(o, msgs2, m.events, message_type, "ok", id)
                       : o \in broadcast(w,
                                  Event("message", msgs2[id].conversation_id, None,
                                        msgs2[id].sender_id, id, msgs2[id].content,
                                        msgs2[id].is_deleted, "", None),
                                  "message", Here)}

\* routes.py:237-422 for one frame read from an open connection.
Receive(w) ==
    /\ pc[w] = "recv"
    /\ Cardinality(tasks) <= MaxPending
    /\ alive[w]
    /\ nframes[w] < client[w].budget
    /\ \E f \in client[w].frames :
       \E db_fails \in (IF UsesDb(f) THEN DbOutcomes ELSE {"works"}) :
       \E r \in HandleFrame(w, f, db_fails) :
         /\ Apply(w, r)
         /\ messages' = r.messages
         /\ events' = r.events
         /\ last' = Obs("frame", w, r.type, r.status, r.mid, r.reply, r.presence, r.fin,
                        Buckets(active_connections, w))
    /\ nframes' = [nframes EXCEPT ![w] = @ + 1]
    /\ UNCHANGED <<now, hist, lim, win, waiting, sess, closed, users, client>>

\* routes.py:237 and 423-446: receive_json raises WebSocketDisconnect on a
\* connection the client has left.
Disconnected(w) ==
    /\ pc[w] = "recv"
    /\ Cardinality(tasks) <= MaxPending
    /\ ~alive[w]
    /\ \E o \in Cleanup(w, Here) :
         /\ Apply(w, o)
         /\ last' = Obs("exit", w, "", "", None, o.reply, o.presence, o.fin,
                        Buckets(active_connections, w))
    /\ UNCHANGED <<rlvars, sess, closed, messages, users, nframes, client>>

\* The client goes away.
ClientDrop(w) ==
    /\ pc[w] \in {"bcast", "recv"}
    /\ alive[w]
    /\ client[w].leaves
    /\ alive' = [alive EXCEPT ![w] = FALSE]
    /\ last' = NoObs
    /\ UNCHANGED <<rlvars, active_connections, pc, sess, closed, bc, messages, users,
                   tasks, clock, nframes, client>>

\* A detached task runs: _set_user_presence (routes.py:76-97) or
\* _mark_message_delivered (routes.py:59-73).
RunTask ==
    /\ \E task \in tasks :
         /\ tasks' = tasks \ {task}
         /\ IF task.kind = "presence"
            THEN /\ users' = set_user_presence(users, task.user_id, task.is_online,
                                               task.last_seen, clock + 1)
                 /\ UNCHANGED <<messages, clock>>
            ELSE /\ messages' = mark_message_delivered(messages, task.message_id, clock + 1)
                 /\ clock' = clock + 1
                 /\ UNCHANGED users
    /\ last' = NoObs
    /\ UNCHANGED <<rlvars, active_connections, pc, sess, closed, alive, bc, nframes, client>>

\* The service with nothing connected: one message already stored.
SystemIdle ==
    /\ active_connections = <<>>
    /\ pc = [w \in Conns |-> "init"]
    /\ sess = [w \in Conns |-> NoSess]
    /\ closed = [w \in Conns |-> NoClose]
    /\ alive = [w \in Conns |-> TRUE]
    /\ bc = [w \in Conns |-> IdleBc]
    /\ messages = create_message(<<>>, 1, 1, <<"a">>)
    /\ users = [u \in Users |-> [is_online |-> FALSE, last_seen |-> None]]
    /\ tasks = {}
    /\ clock = 0
    /\ nframes = [w \in Conns |-> 0]
    /\ last = NoObs

Init ==
    /\ events = <<>>
    /\ now = 0
    /\ hist = [k \in Keys |-> <<>>]
    /\ waiting = [th \in Threads |-> NoCall]
    /\ lim = 0
    /\ win = 1
    /\ SystemIdle
    /\ client \in Clients

Next ==
    \/ \E w \in Conns : Start(w)
    \/ \E w \in Conns : Accept(w)
    \/ \E w \in Conns : BcStep(w)
    \/ \E w \in Conns : Receive(w)
    \/ \E w \in Conns : Disconnected(w)
    \/ \E w \in Conns : ClientDrop(w)
    \/ RunTask

Spec == Init /\ [][Next]_vars

(***************************************************************************)
(* The service when user 1 has used up, or nearly used up, its budgets in   *)
(* conversation 1: an earlier session of user 1 has sent, all at instant 0, *)
(* `generic` object frames of which `sends` were message frames with blank   *)
(* content (admitted by both limiters, answered "Message content is          *)
(* required", nothing stored), and has then exited.                          *)
(***************************************************************************)
Instants(n) == [i \in 1..n |-> 0]

Sent(generic, sends) ==
    IF sends = 0
    THEN (rate_key(1) :> Instants(generic))
    ELSE (rate_key(1) :> Instants(generic)) @@ (msg_key(1, 1) :> Instants(sends))

\* User 1 with a free hand and user 2 beside it in conversation 1; the other
\* clients present no token.
Heavy ==
    [w \in Conns |->
        IF w = 1 THEN Client(1, QueryToken(AccessToken(1)), Frames, MaxFrames, TRUE)
        ELSE IF w = 2 THEN Client(1, BearerHeader(AccessToken(2)), {}, 0, TRUE)
        ELSE Client(1, QueryToken(NoToken), {}, 0, FALSE)]

BusyInit ==
    /\ events \in {Sent(g, m) : g \in {WS_EVENT_LIMIT - 1, WS_EVENT_LIMIT},
                                m \in {0, MESSAGE_EVENT_LIMIT - 1, MESSAGE_EVENT_LIMIT}}
    /\ now = 0
    /\ hist = [k \in Keys |-> <<>>]
    /\ waiting = [th \in Threads |-> NoCall]
    /\ lim = 0
    /\ win = 1
    /\ active_connections = <<>>
    /\ pc = [w \in Conns |-> "init"]
    /\ sess = [w \in Conns |-> NoSess]
    /\ closed = [w \in Conns |-> NoClose]
    /\ alive = [w \in Conns |-> TRUE]
    /\ bc = [w \in Conns |-> IdleBc]
    /\ messages = create_message(<<>>, 1, 1, <<"a">>)
    /\ users = [u \in Users |->
                  [is_online |-> FALSE, last_seen |-> IF u = 1 THEN 1 ELSE None]]
    /\ tasks = {}
    /\ clock = 1
    /\ nframes = [w \in Conns |-> 0]
    /\ client = Heavy
    /\ last = NoObs

SpecBusy == BusyInit /\ [][Next]_vars

(***************************************************************************)
(* The same with user 1 on two connections, one in conversation 1 and one   *)
(* in the last conversation, each sending frames, and user 2 beside the     *)
(* first.                                                                   *)
(***************************************************************************)
Shared ==
    [w \in Conns |->
        IF w = 1
        THEN Client(1, QueryToken(AccessToken(1)),
                    Malformed \cup {Text("message", <<" ", "b", " ">>), Typing("typing_start"),
                                    About("message_read", 1)},
                    MaxFrames, FALSE)
        ELSE IF w = 2
        THEN Client(NumConvs, QueryToken(AccessToken(1)),
                    Malformed \cup {Typing("typing_stop"), NoContent("message")}, 1, TRUE)
        ELSE Client(1, BearerHeader(AccessToken(2)), {}, 0, TRUE)]

SharedInit ==
    /\ events \in {Sent(g, 0) : g \in {WS_EVENT_LIMIT - 1, WS_EVENT_LIMIT}}
    /\ now = 0
    /\ hist = [k \in Keys |-> <<>>]
    /\ waiting = [th \in Threads |-> NoCall]
    /\ lim = 0
    /\ win = 1
    /\ active_connections = <<>>
    /\ pc = [w \in Conns |-> "init"]
    /\ sess = [w \in Conns |-> NoSess]
    /\ closed = [w \in Conns |-> NoClose]
    /\ alive = [w \in Conns |-> TRUE]
    /\ bc = [w \in Conns |-> IdleBc]
    /\ messages = create_message(<<>>, 1, 1, <<"a">>)
    /\ users = [u \in Users |->
                  [is_online |-> FALSE, last_seen |-> IF u = 1 THEN 1 ELSE None]]
    /\ tasks = {}
    /\ clock = 1
    /\ nframes = [w \in Conns |-> 0]
    /\ client = Shared
    /\ last = NoObs

SpecShared == SharedInit /\ [][Next]_vars

(***************************************************************************)
(* Properties of the chat service (specification Spec).                     *)
(***************************************************************************)
\* The pass a session was awaiting has ended in this step, called from the
\* given place of chat_websocket.
PassEnded(caller) == last.pass.caller = caller /\ last.pass.status # "idle"

\* The event of the ended pass was sent to every connection that was filed
\* under the conversation when the pass began and is still open.
ReachedAll == \A x \in last.pass.start : alive[x] => x \in last.pass.got

\* C1: a message frame with non-blank content that was admitted and stored
\* is delivered to every open connection filed under the conversation, the
\* sender's and every other user's, with the id and the trimmed content of
\* the stored row.
MessageReachesBoth ==
    PassEnded("message") =>
        /\ last.pass.ev.message_id \in 1..Len(messages)
        /\ last.pass.ev.content = messages[last.pass.ev.message_id].content
        /\ last.pass.ev.content = strip(last.pass.ev.content)
        /\ ReachedAll

\* C2: in every step, a presence broadcast with status "online" about user u
\* begins exactly when u's connection count goes from 0 to 1, and one with
\* status "offline" exactly when it goes from a positive count to 0.
PresenceOncePerTransition ==
    [][\A u \in Users :
          LET before == get_user_connection_count(active_connections, u)
              after == get_user_connection_count(active_connections', u)
              emitted(s) == /\ last'.presence = s
                            /\ last'.conn # None
                            /\ sess'[last'.conn].user_id = u
          IN  /\ emitted("online") <=> (before = 0 /\ after = 1)
              /\ emitted("offline") <=> (before > 0 /\ after = 0)]_vars

\* C3: once a message's read_at is set, no later step changes it.
ReadAtFirstWriterWins ==
    [][\A m \in 1..Len(messages) :
          messages[m].read_at # None => messages'[m].read_at = messages[m].read_at]_vars

\* C5: on every reachable registry and for every conversation, user and
\* connection: disconnect of a connection that is not filed under that
\* bucket returns the registry unchanged, and disconnect applied twice gives
\* what disconnect applied once gives.
DisconnectIdempotent ==
    \A c \in Convs, u \in Users, w \in Conns :
        LET once == disconnect(active_connections, c, u, w) IN
        /\ <<c, u>> \notin Buckets(active_connections, w) => once = active_connections
        /\ disconnect(once, c, u, w) = once

\* A session has run its exit path, with its disconnect, on a connection a
\* failed send had already deregistered, while other connections are filed.
DisconnectAgainWitness ==
    /\ last.act = "exit"
    /\ last.filed = {}
    /\ active_connections # <<>>

\* The user a client's handshake authenticates (None when it does not).
Authenticated(w) ==
    LET token == extract_token(client[w].handshake) IN
    IF token.present THEN get_user_id_from_token(token) ELSE None

\* C6: a connection whose authenticated user is no participant of the
\* conversation is never filed in the registry and never begins a presence
\* broadcast, and when the handler closes it, it is with the policy-violation
\* code and the reason "Not a participant in this conversation"; an open
\* connection of a participant that has reached the receive loop is filed
\* under its conversation and user.
NonParticipantRejected ==
    \A w \in Conns :
        LET c == client[w].conversation_id
            u == Authenticated(w)
        IN  /\ (u # None /\ <<c, u>> \notin conversation_users) =>
                  /\ Buckets(active_connections, w) = {}
                  /\ pc[w] \in {"init", "closed", "crashed"}
                  /\ pc[w] = "closed" =>
                        closed[w] = [code |-> "WS_1008_POLICY_VIOLATION",
                                     reason |-> "Not a participant in this conversation"]
                  /\ last.conn # w
                  /\ \A task \in tasks : task.kind = "presence" => task.user_id # u
            /\ (u # None /\ <<c, u>> \in conversation_users /\ pc[w] = "recv" /\ alive[w]) =>
                  Buckets(active_connections, w) = {<<c, u>>}

\* A participant is in the receive loop of a conversation and a user that is
\* no participant of it has been turned away.
NonParticipantWitness ==
    \E a, b \in Conns :
        /\ client[a].conversation_id = client[b].conversation_id
        /\ pc[a] = "recv" /\ alive[a]
        /\ Buckets(active_connections, a) # {}
        /\ Authenticated(b) # None
        /\ <<client[b].conversation_id, Authenticated(b)>> \notin conversation_users
        /\ pc[b] = "closed"
        /\ closed[b].reason = "Not a participant in this conversation"

\* C7: when the author's message_delete has been handled, the message is
\* stored with is_deleted true and empty content, and the message_delete
\* event, carrying is_deleted true and empty content, is sent to every open
\* connection filed under the conversation, the sender's included.
DeleteReachesAll ==
    PassEnded("delete") =>
        /\ messages[last.pass.ev.message_id].is_deleted
        /\ messages[last.pass.ev.message_id].content = <<>>
        /\ last.pass.ev.is_deleted
        /\ last.pass.ev.content = <<>>
        /\ last.pass.exclude = None
        /\ ReachedAll

\* C8: a message_delete for a message of the conversation, sent by a user
\* that is not its sender, has status forbidden (or error, when the database
\* fails); the acting connection gets the error event "Not authorized to
\* delete this message", no broadcast begins, and no message changes.
ForeignDeleteForbidden ==
    [][(/\ last'.act = "frame"
        /\ last'.type = "message_delete"
        /\ FindInConversation(messages, last'.mid,
                              sess[last'.conn].conversation_id) # None
        /\ messages[last'.mid].sender_id # sess[last'.conn].user_id)
       => /\ last'.status \in {"forbidden", "error"}
          /\ last'.status = "forbidden" =>
                last'.reply = "Not authorized to delete this message"
          /\ last'.reply # ""
          /\ messages' = messages
          /\ bc' = bc
          /\ last'.pass.status = "idle"
          /\ active_connections' = active_connections
          /\ pc'[last'.conn] = "recv"]_vars

\* A user that is not the sender of message 1 has asked to delete it while
\* another user's connection is filed under the conversation.
ForeignDeleteWitness ==
    /\ last.act = "frame"
    /\ last.type = "message_delete"
    /\ last.status = "forbidden"
    /\ last.reply = "Not authorized to delete this message"
    /\ messages[last.mid].sender_id # sess[last.conn].user_id
    /\ ~messages[last.mid].is_deleted
    /\ ConnectionsOf(active_connections, sess[last.conn].conversation_id) \ {last.conn} # {}

\* C9: the registry holds no conversation with an empty dict of users and no
\* user with an empty set of connections.
NoEmptyLeaves ==
    \A c \in DOMAIN active_connections :
        /\ DOMAIN active_connections[c] # {}
        /\ \A u \in DOMAIN active_connections[c] : active_connections[c][u] # {}

\* A session's exit has taken the last connection of its user out of a
\* conversation that other users are still filed under.
PrunedUserWitness ==
    /\ last.act = "exit"
    /\ \E b \in last.filed :
          /\ b[1] \in DOMAIN active_connections
          /\ b[2] \notin DOMAIN active_connections[b[1]]

\* C10: a connection is filed under at most one (conversation_id, user_id)
\* bucket, and under none once its session's exit path or a finished
\* broadcast pass has deregistered it.
AtMostOneBucket ==
    /\ \A w \in Conns :
          /\ Cardinality(Buckets(active_connections, w)) <= 1
          /\ pc[w] = "done" => Buckets(active_connections, w) = {}
    /\ last.act = "exit" => Buckets(active_connections, last.conn) = {}
    /\ last.pass.status = "done" =>
          \A d \in last.pass.disconnected : Buckets(active_connections, d[2]) = {}

\* A filed connection has been deregistered by its session's exit path.
DeregisteredWitness ==
    /\ last.act = "exit"
    /\ last.filed # {}
    /\ Buckets(active_connections, last.conn) = {}
    /\ pc[last.conn] = "done"


\* The connections a send of the pass failed on.
Failed(b) == {d[2] : d \in b.disconnected}

\* The open connections filed under the conversation when the pass began that
\* do not belong to the user the pass leaves out.
Targets(b) ==
    {x \in b.start : alive[x] /\ (b.exclude = None \/ sess[x].user_id # b.exclude)}

\* C11: in a broadcast pass no connection is sent to twice; while the pass
\* goes on from one send to the next the registry is left alone; and when a
\* pass in which a send failed has ended, the event has still been sent to
\* every other open connection it was meant for, every connection whose send
\* failed is out of the registry, and no error went to the caller's client.
SendFailureContained ==
    [][/\ \A w \in Conns :
             /\ bc'[w].status = "run" =>
                   bc'[w].cur \notin bc'[w].got \cup Failed(bc'[w]) \cup bc'[w].pending
             /\ (/\ bc[w].status = "run" /\ bc'[w].status = "run"
                 /\ bc'[w].caller = bc[w].caller
                 /\ bc'[w].got \cup Failed(bc'[w]) # bc[w].got \cup Failed(bc[w]))
                => active_connections' = active_connections
       /\ (last'.pass.status # "idle" /\ last'.pass.disconnected # {}) =>
             /\ \A x \in Failed(last'.pass) : Buckets(active_connections', x) = {}
             /\ \A x \in last'.pass.start :
                   (alive'[x] /\ (last'.pass.exclude = None
                                  \/ sess'[x].user_id # last'.pass.exclude))
                   => x \in last'.pass.got
             /\ last'.reply = ""]_vars

\* C12: a pass never ends by an exception, whatever other sessions register
\* or deregister while it is suspended in a send, and it has then sent the
\* event to every open connection that was filed under the conversation when
\* it began and is not of the user it leaves out.
PassNeverRaises ==
    last.pass.status # "idle" =>
        /\ last.pass.status = "done"
        /\ Targets(last.pass) \subseteq last.pass.got

\* C13: a pass of broadcast_except that has ended has sent the event to no
\* connection of exclude_user_id and to every open connection of every other
\* user filed under the conversation.
ExceptSkipsOnlyExcluded ==
    (last.pass.status # "idle" /\ last.pass.exclude # None) =>
        /\ \A x \in last.pass.got : sess[x].user_id # last.pass.exclude
        /\ \A x \in last.pass.start :
              (alive[x] /\ sess[x].user_id # last.pass.exclude) => x \in last.pass.got

\* C14: on every reachable registry and for every user,
\* get_user_connection_count is the number of (conversation, connection)
\* pairs the user's connections are filed under.
CountIsTotal ==
    \A u \in Users :
        get_user_connection_count(active_connections, u) =
            Cardinality({p \in Convs \X Conns : <<p[1], u>> \in Buckets(active_connections, p[2])})

\* A user has connections filed under two conversations, and another user
\* has none.
CountWitness ==
    \E u, v \in Users :
        /\ get_user_connection_count(active_connections, u) = 2
        /\ Cardinality({c \in DOMAIN active_connections :
                           u \in DOMAIN active_connections[c]}) = 2
        /\ get_user_connection_count(active_connections, v) = 0


\* C15: a session that was registered and whose handler has ended, by a
\* return or by an exception, is no longer filed in the registry; and an exit
\* path that leaves its user without a connection begins the offline presence
\* broadcast.
EndedSessionDeregistered ==
    /\ \A w \in Conns :
          (pc[w] \in {"done", "crashed"} /\ sess[w].user_id # None) =>
              Buckets(active_connections, w) = {}
    /\ (/\ last.act = "exit"
        /\ get_user_connection_count(active_connections, sess[last.conn].user_id) = 0)
       => last.presence = "offline"

\* C16: when the handling of an inbound event fails while the client's
\* connection is open - the storage call fails, or the broadcast pass the
\* event triggered raises - the session is back at its receive and its
\* connection is still filed.
EventFailureKeepsSession ==
    [][(/\ last'.conn # None
        /\ alive[last'.conn]
        /\ \/ last'.act = "frame" /\ last'.status = "error"
           \/ /\ last'.pass.status = "raised"
              /\ last'.pass.caller \in {"typing", "delete", "read", "message"})
       => /\ pc'[last'.conn] = "recv"
          /\ Buckets(active_connections', last'.conn) # {}]_vars

\* C17: a frame that is not JSON or not an object is answered with one error
\* event to its own connection; nothing is broadcast, no message, registry
\* entry, limiter queue or detached task changes, and the session is back at
\* its receive.
MalformedOnlyReplies ==
    [][(last'.act = "frame" /\ last'.type = "" /\ last'.status = "invalid")
       => /\ last'.reply \in {"Invalid JSON payload", "Invalid message format"}
          /\ pc'[last'.conn] = "recv"
          /\ alive'[last'.conn]
          /\ last'.pass.status = "idle"
          /\ last'.presence = ""
          /\ bc' = bc
          /\ messages' = messages
          /\ users' = users
          /\ tasks' = tasks
          /\ events' = events
          /\ active_connections' = active_connections]_vars

\* A malformed frame has been answered while another connection is filed
\* under the conversation.
MalformedWitness ==
    /\ last.act = "frame"
    /\ last.type = ""
    /\ last.status = "invalid"
    /\ last.reply = "Invalid JSON payload"
    /\ pc[last.conn] = "recv"
    /\ Buckets(active_connections, last.conn) # {}


\* The token a handshake carries, read off the handshake itself: the `token`
\* query parameter, or else the credentials of a two-part Bearer header.
Carried(h) ==
    IF h.query.present THEN h.query
    ELSE IF h.header.parts = 2 /\ h.header.scheme \in {"Bearer", "bearer", "BEARER"}
    THEN h.header.credentials
    ELSE NoToken

\* C21: a connection whose handshake carries no token is closed with
\* policy-violation and "Missing authentication token"; one whose token does
\* not decode, is not of kind "access" or has no subject is closed with
\* policy-violation and "Invalid or expired token"; such a connection is never
\* accepted or filed, no session (hence no membership lookup, whose failure
\* would end the handler otherwise) and no pass or presence update exists for
\* it.
BadHandshakeClosed ==
    \A w \in Conns :
        LET token == Carried(client[w].handshake)
            invalid == ~token.decodes \/ token.type # "access" \/ token.sub = None
        IN  (~token.present \/ invalid) =>
               /\ pc[w] \in {"init", "closed"}
               /\ pc[w] = "closed" =>
                     closed[w] = [code |-> "WS_1008_POLICY_VIOLATION",
                                  reason |-> IF ~token.present
                                             THEN "Missing authentication token"
                                             ELSE "Invalid or expired token"]
               /\ Buckets(active_connections, w) = {}
               /\ sess[w] = NoSess
               /\ bc[w] = IdleBc
               /\ last.conn = w => last.presence = ""

\* A connection presenting a refresh token has been closed while another
\* session is registered.
BadHandshakeWitness ==
    \E w \in Conns :
        /\ client[w].handshake.query.present
        /\ client[w].handshake.query.type = "refresh"
        /\ pc[w] = "closed"
        /\ closed[w].reason = "Invalid or expired token"
        /\ active_connections # <<>>

\* C22: a handler that was given a usable access token and ended before it
\* learnt whether its user takes part in the conversation (the membership
\* check or the user lookup raised) has returned after closing its connection
\* with the server-error code and the reason "Failed to authorize websocket",
\* and the connection is not filed.
AuthorizationErrorClosed ==
    \A w \in Conns :
        LET token == Carried(client[w].handshake) IN
        (/\ token.present /\ token.decodes /\ token.type = "access" /\ token.sub # None
         /\ pc[w] # "init"
         /\ sess[w] = NoSess) =>
            /\ pc[w] = "closed"
            /\ closed[w] = [code |-> "WS_1011_SERVER_ERROR",
                            reason |-> "Failed to authorize websocket"]
            /\ Buckets(active_connections, w) = {}

\* C26: a presence pass is about the user of the session that awaits it and
\* goes through that session's conversation; every connection it is sent to
\* is a connection to that conversation and of another user.  A step that begins an "online" pass leaves its
\* connection filed; a step that begins an "offline" pass leaves it filed
\* nowhere, and the last_seen of the event is the one of the storage update
\* detached in the same step.
PresenceOnlyToOthers ==
    [][/\ \A w \in Conns :
             LET b == bc'[w]
             IN  (b.status = "run" /\ b.ev.type = "presence") =>
                    /\ b.conv = sess'[w].conversation_id
                    /\ b.ev.conversation_id = b.conv
                    /\ b.ev.user_id = sess'[w].user_id
                    /\ b.exclude = b.ev.user_id
                    /\ \A x \in b.got \cup {b.cur} :
                          /\ sess'[x].conversation_id = b.conv
                          /\ sess'[x].user_id # b.ev.user_id
       /\ (last'.pass.status # "idle" /\ last'.pass.ev.type = "presence") =>
             \A x \in last'.pass.got :
                /\ sess'[x].conversation_id = sess'[last'.conn].conversation_id
                /\ sess'[x].user_id # last'.pass.ev.user_id
       /\ last'.presence = "online" =>
             <<sess'[last'.conn].conversation_id, sess'[last'.conn].user_id>>
                 \in Buckets(active_connections', last'.conn)
       /\ last'.presence = "offline" =>
             /\ Buckets(active_connections', last'.conn) = {}
             /\ \E t \in tasks' \ tasks :
                   /\ t = PresenceTask(sess'[last'.conn].user_id, FALSE, t.last_seen)
                   /\ t.last_seen # None
                   /\ bc'[last'.conn].status = "run" =>
                         /\ bc'[last'.conn].ev.status = "offline"
                         /\ bc'[last'.conn].ev.ts = t.last_seen
                   /\ last'.pass.ev.status = "offline" => last'.pass.ev.ts = t.last_seen]_vars

\* An "offline" pass has returned after reaching a connection of another
\* user, and the storage update with its last_seen is outstanding.
PresenceWitness ==
    /\ last.pass.status = "done"
    /\ last.pass.ev.type = "presence"
    /\ last.pass.ev.status = "offline"
    /\ last.pass.got # {}
    /\ PresenceTask(last.pass.ev.user_id, FALSE, last.pass.ev.ts) \in tasks

\* C27: a step changes a user's stored last_seen only when it marks the user
\* offline, and then to a value that is not null; a last_seen that is not
\* null never becomes null.
LastSeenOnlyByOffline ==
    [][\A u \in Users :
          /\ users'[u].last_seen # users[u].last_seen =>
                ~users'[u].is_online /\ users'[u].last_seen # None
          /\ users[u].last_seen # None => users'[u].last_seen # None]_vars

\* A user that has been seen going offline is stored online again, its
\* last_seen kept.
LastSeenWitness ==
    \E u \in Users : users[u].is_online /\ users[u].last_seen # None

\* C28: when no detached update is outstanding and no session is inside its
\* accept, a broadcast pass or its exit (each is at its receive with its
\* client connected, or has not begun, or has ended), a user is stored online
\* exactly when it has a registered connection.
PresenceConverges ==
    (/\ tasks = {}
     /\ \A w \in Conns : \/ pc[w] \in {"init", "closed", "done"}
                         \/ pc[w] = "recv" /\ alive[w]) =>
        \A u \in Users :
            users[u].is_online <=> get_user_connection_count(active_connections, u) > 0

\* C29: the pass of a typing frame ends by returning; it carries the frame's
\* type and the sender's id, has reached every connected connection of every
\* other user that was filed under the conversation when it began and no
\* connection of the sender; and the step in which it ends begins no presence
\* broadcast and leaves the sender's connection filed where it was.
TypingReachesOthers ==
    (last.pass.status # "idle" /\ last.pass.caller = "typing") =>
        LET sender == sess[last.conn].user_id IN
        /\ last.pass.status = "done"
        /\ last.pass.ev.type \in {"typing_start", "typing_stop"}
        /\ last.pass.ev.sender_id = sender
        /\ last.pass.ev.conversation_id = sess[last.conn].conversation_id
        /\ \A x \in last.pass.got : sess[x].user_id # sender
        /\ \A x \in last.pass.start :
              (alive[x] /\ sess[x].user_id # sender) => x \in last.pass.got
        /\ last.presence = ""
        /\ Buckets(active_connections, last.conn) = last.filed

\* C30: a message that is deleted stays deleted in every step, and a deleted
\* message has no content; and marking any message of the table read, in any
\* conversation, leaves every deleted message deleted and without content.
DeletedIsTerminal ==
    [][\A m \in 1..Len(messages') :
          /\ (m <= Len(messages) /\ messages[m].is_deleted) => messages'[m].is_deleted
          /\ messages'[m].is_deleted =>
                /\ messages'[m].content = <<>>
                /\ \A k \in 0..MaxMessageId, c \in Convs :
                      LET after == mark_message_read(messages', k, c, clock' + 1).messages
                      IN  after[m].is_deleted /\ after[m].content = <<>>]_vars

\* A message created in a session has been deleted, and its delivered update
\* has run after the deletion.
DeletedWitness ==
    \E m \in 1..Len(messages) :
        /\ m > 1
        /\ messages[m].is_deleted
        /\ messages[m].delivered_at # None
        /\ messages[m].updated_at # None
        /\ messages[m].delivered_at > messages[m].updated_at

\* C31: a message is created with delivered_at unset; a delivered_at that is
\* set never changes; it is set only by the run of the message's delivered
\* update; and that update is detached only in a step in which the broadcast
\* pass of that message returns, the session going back to its receive with
\* the update outstanding.
DeliveredAfterBroadcast ==
    [][\A m \in 1..Len(messages') :
          /\ m > Len(messages) => messages'[m].delivered_at = None
          /\ (m <= Len(messages) /\ messages[m].delivered_at # None) =>
                messages'[m].delivered_at = messages[m].delivered_at
          /\ (m <= Len(messages) /\ messages'[m].delivered_at # messages[m].delivered_at) =>
                DeliveredTask(m) \in tasks \ tasks'
          /\ DeliveredTask(m) \in tasks' \ tasks =>
                /\ last'.pass.status = "done"
                /\ last'.pass.caller = "message"
                /\ last'.pass.ev.message_id = m
                /\ messages'[m].delivered_at = None
                /\ pc'[last'.conn] = "recv"]_vars

\* A session has handled a further frame while the delivered update of a
\* message it created was outstanding.
DeliveredWitness ==
    /\ last.act = "frame"
    /\ \E m \in 1..Len(messages) :
          /\ DeliveredTask(m) \in tasks
          /\ messages[m].sender_id = sess[last.conn].user_id
          /\ messages[m].delivered_at = None
          /\ last.mid # m

\* C32: a message_read or message_delete frame that ends in forbidden,
\* not_found or a storage error is answered with an error event to its own
\* connection, begins no broadcast pass and leaves every message as it was.
FailedEventOnlyReplies ==
    [][(/\ last'.act = "frame"
        /\ last'.type \in {"message_read", "message_delete"}
        /\ last'.status \in {"forbidden", "not_found", "error"}) =>
          /\ last'.reply # ""
          /\ last'.pass.status = "idle"
          /\ bc' = bc
          /\ pc'[last'.conn] = "recv"
          /\ messages' = messages]_vars

\* C33: registering a connection under a bucket it is filed under leaves the
\* registry as it is, and the registration at the end of the accept files the
\* connection and removes no other; a session passes its accept once, never
\* returning to the accept or to its start; and a connection that has not completed its accept
\* is filed nowhere and is not among the connections any pass has sent to, is
\* sending to or has yet to send to.
RegisteredAfterAccept ==
    [][\A w \in Conns :
          /\ pc[w] # "init" => pc'[w] # "init"
          /\ pc[w] \notin {"init", "accepting"} => pc'[w] # "accepting"
          /\ pc'[w] \in {"init", "accepting", "closed"} =>
                /\ Buckets(active_connections', w) = {}
                /\ \A x \in Conns :
                      bc'[x].status = "run" =>
                          w \notin bc'[x].got \cup {bc'[x].cur} \cup bc'[x].pending
                /\ last'.pass.status # "idle" => w \notin last'.pass.got
          /\ (pc[w] = "accepting" /\ pc'[w] # "accepting") =>
                /\ <<sess[w].conversation_id, sess[w].user_id>>
                       \in Buckets(active_connections', w)
                /\ \A x \in Conns \ {w} :
                      Buckets(active_connections, x) \subseteq
                          Buckets(active_connections', x)
          /\ \A p \in Buckets(active_connections', w) :
                connect(active_connections', p[1], p[2], w) = active_connections']_vars

\* Two connections of one user are filed under the same bucket, and a pass
\* has sent to one of them.
RegisteredWitness ==
    \E c \in DOMAIN active_connections :
        \E u \in DOMAIN active_connections[c] :
            /\ Cardinality(active_connections[c][u]) >= 2
            /\ \E x \in Conns :
                  bc[x].status = "run" /\ bc[x].got \cap active_connections[c][u] # {}

\* C34: a session takes a frame only at its receive, with no pass of its own
\* outstanding, and one frame at a time; while it awaits a pass no frame of
\* its connection is read, and the handling of a frame leaves the session at
\* its receive, in a pass, or ended.
FramesInSequence ==
    [][\A w \in Conns :
          /\ nframes'[w] # nframes[w] =>
                /\ pc[w] = "recv"
                /\ bc[w].status = "idle"
                /\ nframes'[w] = nframes[w] + 1
                /\ last'.act = "frame"
                /\ last'.conn = w
                /\ \A x \in Conns \ {w} : nframes'[x] = nframes[x]
                /\ pc'[w] \in {"recv", "bcast", "done", "crashed"}
                /\ pc'[w] = "recv" => bc'[w].status = "idle"
          /\ (last'.act = "frame" /\ last'.conn = w) => nframes'[w] = nframes[w] + 1
          /\ pc[w] = "bcast" => nframes'[w] = nframes[w]]_vars

\* A session handles a frame while another session is in the middle of the
\* pass of one of its frames, with sends made and sends to make.
InterleavedWitness ==
    /\ last.act = "frame"
    /\ \E w \in Conns \ {last.conn} :
          /\ pc[w] = "bcast"
          /\ bc[w].status = "run"
          /\ bc[w].caller \in {"typing", "delete", "read", "message"}
          /\ bc[w].got # {}
          /\ nframes[w] > 0

\* C36: a session that has registered and has not begun its exit path (it is
\* at its receive, or awaits the pass of its coming online or of one of its
\* frames) has its connection filed under the bucket of its conversation and
\* user.
ActiveSessionRegistered ==
    \A w \in Conns :
        (pc[w] = "recv" \/ (pc[w] = "bcast" /\ bc[w].caller # "offline")) =>
            <<sess[w].conversation_id, sess[w].user_id>> \in Buckets(active_connections, w)

\* C37: a step in which a sender is sent "Failed to send message" stores no
\* message and ends no pass, so that no message of the frame is stored and no
\* connection has been sent its event; and a step that stores a message, or
\* that ends the pass of a message event, sends its sender no error.
MessageAllOrNothing ==
    [][/\ last'.reply = "Failed to send message" =>
             /\ messages' = messages
             /\ last'.pass.status = "idle"
       /\ Len(messages') > Len(messages) => last'.reply = ""
       /\ (last'.pass.status # "idle" /\ last'.pass.caller = "message") =>
             last'.reply = ""]_vars

\* C38: the connections a pass has sent to, is sending to, has yet to send to
\* or has found closed belong to sessions attached to the conversation of its
\* event, and so do those of a pass that has just ended; and a step of a
\* session, the deregistrations at the end of its pass included, leaves the
\* registry's entry of every other conversation as it was, while a step of
\* no session leaves the registry as it was.
BroadcastWithinConversation ==
    [][/\ \A x \in Conns :
             bc'[x].status = "run" =>
                 \A w \in bc'[x].got \cup {bc'[x].cur} \cup bc'[x].pending
                          \cup {d[2] : d \in bc'[x].disconnected} :
                     sess'[w].conversation_id = bc'[x].ev.conversation_id
       /\ last'.pass.status # "idle" =>
             \A w \in last'.pass.got \cup {d[2] : d \in last'.pass.disconnected} :
                 sess'[w].conversation_id = last'.pass.ev.conversation_id
       /\ IF last'.conn = None
          THEN active_connections' = active_connections
          ELSE \A c \in Convs \ {sess'[last'.conn].conversation_id} :
                  /\ c \in DOMAIN active_connections' <=> c \in DOMAIN active_connections
                  /\ c \in DOMAIN active_connections =>
                        active_connections'[c] = active_connections[c]]_vars

\* A pass has ended and deregistered a connection its send failed on, while
\* a connection is filed under another conversation.
OtherConversationWitness ==
    /\ last.pass.status = "done"
    /\ last.pass.disconnected # {}
    /\ last.pass.got # {}
    /\ \E c \in DOMAIN active_connections :
          /\ c # last.pass.conv
          /\ ConnectionsOf(active_connections, c) # {}

\* C39: the frame of a session attached to conversation C leaves every message
\* of another conversation as it was; a message_read or message_delete frame
\* that names a message of another conversation is answered "Message not
\* found" (or, when the storage call raises, with the failure reply) and
\* changes no message; every message the frame stores carries conversation C
\* and, as sender, the user of the session; and a session's other steps
\* change no message.
OnlyOwnConversation ==
    [][last'.conn # None =>
          LET w == last'.conn
              C == sess'[w].conversation_id
          IN  IF last'.act # "frame" THEN messages' = messages
              ELSE /\ Len(messages') >= Len(messages)
                   /\ \A m \in 1..Len(messages) :
                         messages[m].conversation_id # C => messages'[m] = messages[m]
                   /\ \A m \in (Len(messages) + 1)..Len(messages') :
                         /\ messages'[m].conversation_id = C
                         /\ messages'[m].sender_id = sess'[w].user_id
                   /\ (/\ last'.type \in {"message_read", "message_delete"}
                       /\ last'.mid \in 1..Len(messages)
                       /\ messages[last'.mid].conversation_id # C) =>
                         /\ messages' = messages
                         /\ last'.status \in {"not_found", "error"}
                         /\ last'.status = "not_found" => last'.reply = "Message not found"
                         /\ last'.pass.status = "idle"
                         /\ bc' = bc]_vars

\* A session that has stored a message in its conversation names, in a read
\* or delete frame, a message its own user wrote in another conversation,
\* and is answered not_found.
OtherConversationMessageWitness ==
    /\ last.act = "frame"
    /\ last.status = "not_found"
    /\ last.mid \in 1..Len(messages)
    /\ messages[last.mid].conversation_id # sess[last.conn].conversation_id
    /\ messages[last.mid].sender_id = sess[last.conn].user_id
    /\ \E m \in 1..Len(messages) :
          /\ messages[m].conversation_id = sess[last.conn].conversation_id
          /\ messages[m].sender_id = sess[last.conn].user_id

(***************************************************************************)
(* Properties of rejected frames (specification SpecBusy).                  *)
(***************************************************************************)
\* The instants a key still holds inside its window at the present instant.
InWindow(key, window_seconds) == Evict(Lookup(events, key), now - window_seconds)

\* C18: an object frame that arrives when its user's generic budget is used
\* up is answered "Rate limit exceeded. Please slow down."; a message frame
\* that passes the generic limit when the send budget of its conversation and
\* user is used up is answered "Too many messages. Please slow down."; and a
\* rejected frame stores and changes no message, begins no broadcast, detaches
\* no task, and leaves its connection open, filed and back at its receive.
RejectedFrameOnlyReplies ==
    [][(last'.act = "frame" /\ last'.type # "") =>
          LET w == last'.conn
              generic_full ==
                  Len(InWindow(rate_key(sess[w].user_id), WS_EVENT_WINDOW_SECONDS))
                      >= WS_EVENT_LIMIT
              send_full ==
                  Len(InWindow(msg_key(sess[w].conversation_id, sess[w].user_id),
                               MESSAGE_EVENT_WINDOW_SECONDS)) >= MESSAGE_EVENT_LIMIT
          IN  /\ generic_full =>
                    /\ last'.status = "rate_limited"
                    /\ last'.reply = "Rate limit exceeded. Please slow down."
              /\ (~generic_full /\ send_full /\ last'.type = "message") =>
                    /\ last'.status = "rate_limited"
                    /\ last'.reply = "Too many messages. Please slow down."
              /\ last'.status = "rate_limited" =>
                    /\ generic_full \/ send_full
                    /\ messages' = messages
                    /\ bc' = bc
                    /\ last'.pass.status = "idle"
                    /\ last'.presence = ""
                    /\ tasks' = tasks
                    /\ active_connections' = active_connections
                    /\ Buckets(active_connections', w) # {}
                    /\ pc'[w] = "recv"
                    /\ alive'[w]]_vars

\* A frame has been rejected by the send limit after an earlier frame of the
\* same session was rejected or admitted by the generic limit, with another
\* user's connection filed under the conversation.
RejectedFrameWitness ==
    /\ last.act = "frame"
    /\ last.status = "rate_limited"
    /\ last.reply = "Too many messages. Please slow down."
    /\ Len(Lookup(events, rate_key(sess[last.conn].user_id))) = WS_EVENT_LIMIT
    /\ ConnectionsOf(active_connections, sess[last.conn].conversation_id) \ {last.conn} # {}

\* C19: a step that stores a new message has recorded its instant under the
\* generic key of the user and under the send key of the conversation and
\* user, each of which held fewer instants than its limit.
MessageOnlyPastSendLimit ==
    [][Len(messages') > Len(messages) =>
          LET w == last'.conn
              rk == rate_key(sess[w].user_id)
              mk == msg_key(sess[w].conversation_id, sess[w].user_id)
          IN  /\ Len(InWindow(rk, WS_EVENT_WINDOW_SECONDS)) < WS_EVENT_LIMIT
              /\ Lookup(events', rk) = Append(InWindow(rk, WS_EVENT_WINDOW_SECONDS), now)
              /\ Len(InWindow(mk, MESSAGE_EVENT_WINDOW_SECONDS)) < MESSAGE_EVENT_LIMIT
              /\ Lookup(events', mk) = Append(InWindow(mk, MESSAGE_EVENT_WINDOW_SECONDS), now)]_vars


(***************************************************************************)
(* Properties of the generic limit (specification SpecShared).              *)
(***************************************************************************)
\* C35: a frame that is not JSON or no object leaves the limiter's store as it
\* is.  An object frame of a session of user u consults the key ws:<u> once:
\* when the key holds fewer instants than its limit, one instant is recorded
\* under it; when it is full, nothing is recorded, the frame is answered
\* "Rate limit exceeded. Please slow down." and it changes no message, begins
\* no broadcast and detaches no task.  No frame touches a key other than
\* ws:<u> and the send key of its conversation and user.
GenericLimitOncePerFrame ==
    [][last'.act = "frame" =>
          LET w == last'.conn
              rk == <<"ws", sess[w].user_id>>
              mk == <<"msg", sess[w].conversation_id, sess[w].user_id>>
              q == InWindow(rk, WS_EVENT_WINDOW_SECONDS)
          IN  IF last'.type = ""
              THEN events' = events
              ELSE /\ \A k \in (DOMAIN events \cup DOMAIN events') \ {rk, mk} :
                         /\ k \in DOMAIN events /\ k \in DOMAIN events'
                         /\ events'[k] = events[k]
                   /\ IF Len(q) < WS_EVENT_LIMIT
                      THEN Lookup(events', rk) = Append(q, now)
                      ELSE /\ Lookup(events', rk) = q
                           /\ Lookup(events', mk) = Lookup(events, mk)
                           /\ last'.reply = "Rate limit exceeded. Please slow down."
                           /\ messages' = messages
                           /\ bc' = bc
                           /\ last'.pass.status = "idle"
                           /\ tasks' = tasks]_vars

\* A frame of the connection of user 1 in the last conversation is rejected
\* by the generic limit after the connection of user 1 in conversation 1
\* has stored a message, and with it used the last of the user's budget.
SharedBudgetWitness ==
    /\ last.act = "frame"
    /\ last.reply = "Rate limit exceeded. Please slow down."
    /\ sess[last.conn].conversation_id = NumConvs
    /\ \E x \in Conns \ {last.conn} :
          /\ sess[x].user_id = sess[last.conn].user_id
          /\ sess[x].conversation_id = 1
          /\ nframes[x] > 0
    /\ Len(messages) = 2

(***************************************************************************)
(* The limiter on its own: one limit/window pair, drawn at start, applied   *)
(* to every key; time.monotonic() advances between calls.                   *)
(***************************************************************************)

LimiterInit ==
    /\ events = <<>>
    /\ now = 0
    /\ hist = [k \in Keys |-> <<>>]
    /\ waiting = [th \in Threads |-> NoCall]
    /\ lim \in 0..MaxLimit
    /\ win \in 1..MaxWindow
    /\ SystemIdle
    /\ client = Readers

Tick ==
    /\ now < MaxTime
    /\ now' = now + 1
    /\ UNCHANGED <<events, hist, lim, win, waiting>>
    /\ UNCHANGED sysvars

RECURSIVE CallsOn(_)
CallsOn(ks) ==
    IF ks = {} THEN 0
    ELSE LET k == CHOOSE x \in ks : TRUE IN Len(hist[k]) + CallsOn(ks \ {k})

AllowCall(k) ==
    /\ CallsOn(Keys) < MaxCalls
    /\ LET r == allow(events, k, lim, win, now) IN
       /\ events' = r.events
       /\ hist' = [hist EXCEPT ![k] = Append(@, [t |-> now, ok |-> r.ok])]
    /\ UNCHANGED <<now, lim, win, waiting>>
    /\ UNCHANGED sysvars

LimiterNext == Tick \/ \E k \in Keys : AllowCall(k)

SpecLimiter == LimiterInit /\ [][LimiterNext]_vars

\* C4: on every key, with limit lim and window win, starting from an empty
\* key: the first lim calls made within win of the first call are all
\* admitted; the (lim+1)th call, if still within win of the first call, is
\* rejected; and the first call made after time has passed win from the first
\* admitted call (all earlier calls having been made inside that window) is
\* admitted.
RateWindowContract ==
    \A k \in Keys :
        LET h == hist[k] IN
        /\ \A i \in 1..Len(h) :
              (i <= lim /\ h[i].t <= h[1].t + win) => h[i].ok
        /\ (Len(h) > lim /\ h[lim + 1].t <= h[1].t + win) => ~h[lim + 1].ok
        /\ \A i \in 1..Len(h) :
              (/\ lim >= 1
               /\ i > lim
               /\ \A j \in 1..(i - 1) : h[j].t <= h[1].t + win
               /\ h[i].t > h[1].t + win) => h[i].ok

\* lim >= 1 calls admitted, the next one rejected inside the window, and a
\* call after the window admitted again.
RateWindowWitness ==
    \E k \in Keys :
        LET h == hist[k] IN
        /\ lim >= 1
        /\ Len(h) >= lim + 2
        /\ \A i \in 1..lim : h[i].ok
        /\ h[lim + 1].t <= h[1].t + win /\ ~h[lim + 1].ok
        /\ h[lim + 2].t > h[1].t + win /\ h[lim + 2].ok

\* C20: a call of allow on a key drops the key's instants older than
\* now - win; it is rejected, recording nothing, exactly when the instants
\* that remain number lim or more, and otherwise appends the present instant
\* and is admitted; whichever the outcome, every other key keeps its instants
\* and its presence in the map.
AllowRecordsOnlyAdmitted ==
    [][\A k \in Keys :
          hist'[k] # hist[k] =>
             LET fresh == SelectSeq(Lookup(events, k), LAMBDA x : x >= now - win)
                 ok == hist'[k][Len(hist'[k])].ok
             IN  /\ ok = (Len(fresh) < lim)
                 /\ Lookup(events', k) = IF ok THEN Append(fresh, now) ELSE fresh
                 /\ \A j \in Keys \ {k} :
                       /\ (j \in DOMAIN events') = (j \in DOMAIN events)
                       /\ Lookup(events', j) = Lookup(events, j)]_vars

\* A key's latest call, made at the present instant, was rejected after an
\* admitted instant of the key had fallen out of the window, while the other
\* key holds an instant of its own.
RejectedCallWitness ==
    \E k \in Keys :
        LET h == hist[k] IN
        /\ lim >= 1
        /\ h # <<>>
        /\ h[Len(h)].t = now /\ ~h[Len(h)].ok
        /\ \E i \in 1..Len(h) : h[i].ok /\ h[i].t < now - win
        /\ Len(Lookup(events, k)) = lim
        /\ \E j \in Keys \ {k} : Lookup(events, j) # <<>>

\* C25: after any call of allow has returned, the limiter's map holds no key
\* whose queue is empty.
NoEmptyQueueKept == \A k \in DOMAIN events : events[k] # <<>>

(***************************************************************************)
(* The three callers of the one rate_limiter, with their keys as the text   *)
(* the f-strings build (a string is the sequence of its characters): login  *)
(* attempts by client address, session events by user, chat sends by        *)
(* conversation and user.  Each call is noted under its family and ids.     *)
(***************************************************************************)
\* The ids and addresses of this specification.
Names == {<<"1">>, <<"2">>}

\* A bug the family claim detects: the generic key is built with the prefix
\* of the login key.
ws_rate_key_login_prefix(user_id) == <<"l", "o", "g", "i", "n", ":">> \o user_id

\* auth/routes.py:132  rate_key = f"login:{client_host}"
login_rate_key(client_host) == <<"l", "o", "g", "i", "n", ":">> \o client_host

\* websocket/routes.py:252  rate_key = f"ws:{user_id}"
ws_rate_key(user_id) == <<"w", "s", ":">> \o user_id

\* websocket/routes.py:374  msg_key = f"msg:{conversation_id}:{user_id}"
chat_msg_key(conversation_id, user_id) ==
    <<"m", "s", "g", ":">> \o conversation_id \o <<":">> \o user_id

\* The calls the families make: <<family, ids>>.  Sends are those of user "1".
Callers ==
    {<<"login", <<h>> >> : h \in Names}
    \cup {<<"ws", <<u>> >> : u \in Names}
    \cup {<<"msg", <<c, (<<"1">>)>> >> : c \in Names}

\* The key, the limit and the window a caller hands to allow.
CallerKey(p) ==
    IF p[1] = "login" THEN login_rate_key(p[2][1])
    ELSE IF p[1] = "ws" THEN ws_rate_key(p[2][1])
    ELSE chat_msg_key(p[2][1], p[2][2])

CallerLimit(p) ==
    IF p[1] = "login" THEN LOGIN_ATTEMPT_LIMIT
    ELSE IF p[1] = "ws" THEN WS_EVENT_LIMIT
    ELSE MESSAGE_EVENT_LIMIT

CallerWindow(p) ==
    IF p[1] = "login" THEN LOGIN_ATTEMPT_WINDOW_SECONDS
    ELSE IF p[1] = "ws" THEN WS_EVENT_WINDOW_SECONDS
    ELSE MESSAGE_EVENT_WINDOW_SECONDS

Call(t, ok, warm) == [t |-> t, ok |-> ok, warm |-> warm]

\* The limiter after caller p has called n more times at instant 0, its key
\* holding fewer than its limit less n instants, none of them expired: every
\* call is admitted and appends the instant (rate_limiter.py:26).
Warm(ev, p, n) ==
    IF n = 0 THEN ev
    ELSE Store(ev, CallerKey(p), Lookup(ev, CallerKey(p)) \o [i \in 1..n |-> 0])

\* The callers that have been busy before the run begins: one of them has
\* used up its budget, the other two all of theirs but one call.
WarmCallers == {<<"login", <<(<<"1">>)>> >>, <<"ws", <<(<<"1">>)>> >>,
                <<"msg", <<(<<"1">>), (<<"1">>)>> >>}

\* The instants at which calls are made: the start, and each window's end
\* and the second after it.
Instant ==
    {0, MESSAGE_EVENT_WINDOW_SECONDS, MESSAGE_EVENT_WINDOW_SECONDS + 1,
     WS_EVENT_WINDOW_SECONDS, WS_EVENT_WINDOW_SECONDS + 1,
     LOGIN_ATTEMPT_WINDOW_SECONDS, LOGIN_ATTEMPT_WINDOW_SECONDS + 1}

FamiliesInit ==
    /\ \E full \in WarmCallers :
         LET count(p) == IF p = full THEN CallerLimit(p) ELSE CallerLimit(p) - 1
             a == Warm(<<>>, <<"login", <<(<<"1">>)>> >>, count(<<"login", <<(<<"1">>)>> >>))
             b == Warm(a, <<"ws", <<(<<"1">>)>> >>, count(<<"ws", <<(<<"1">>)>> >>))
         IN  /\ events = Warm(b, <<"msg", <<(<<"1">>), (<<"1">>)>> >>,
                              count(<<"msg", <<(<<"1">>), (<<"1">>)>> >>))
             /\ hist = [p \in Callers |->
                          IF p \in WarmCallers
                          THEN [i \in 1..count(p) |-> Call(0, TRUE, TRUE)]
                          ELSE <<>>]
    /\ now = 0
    /\ lim = 0
    /\ win = 1
    /\ waiting = [th \in Threads |-> NoCall]
    /\ SystemIdle
    /\ client = Readers

\* Time passes between calls.
Wait ==
    /\ \E t \in Instant : t > now /\ now' = t
    /\ UNCHANGED <<events, hist, lim, win, waiting>>
    /\ UNCHANGED sysvars

RECURSIVE CallsMade(_)
CallsMade(ps) ==
    IF ps = {} THEN 0
    ELSE LET p == CHOOSE x \in ps : TRUE IN
         Cardinality({i \in 1..Len(hist[p]) : ~hist[p][i].warm}) + CallsMade(ps \ {p})

\* One of the three call sites calls rate_limiter.allow.
FamilyCall(p) ==
    /\ CallsMade(Callers) < MaxFamilyCalls
    /\ LET r == allow(events, CallerKey(p), CallerLimit(p), CallerWindow(p), now) IN
       /\ events' = r.events
       /\ hist' = [hist EXCEPT ![p] = Append(@, Call(now, r.ok, FALSE))]
    /\ UNCHANGED <<now, lim, win, waiting>>
    /\ UNCHANGED sysvars

login(client_host) == FamilyCall(<<"login", <<client_host>> >>)

ws_event(user_id) == FamilyCall(<<"ws", <<user_id>> >>)

chat_send(conversation_id, user_id) == FamilyCall(<<"msg", <<conversation_id, user_id>> >>)

FamiliesNext ==
    \/ Wait
    \/ \E h \in Names : login(h)
    \/ \E u \in Names : ws_event(u)
    \/ \E c \in Names : chat_send(c, <<"1">>)

SpecFamilies == FamiliesInit /\ [][FamiliesNext]_vars

\* C23: no key of one family equals a key of another; and every call of a
\* family is rejected exactly when the calls admitted before it in the same
\* family and for the same ids, no older than the family's own window (login
\* 60 s, generic 30 s, send 10 s), number the family's own limit (5, 60, 20)
\* or more, whatever the other families have used up.
FamiliesIndependent ==
    [][/\ \A h \in Names, u \in Names, c \in Names, v \in Names :
             /\ login_rate_key(h) # ws_rate_key(u)
             /\ login_rate_key(h) # chat_msg_key(c, v)
             /\ ws_rate_key(u) # chat_msg_key(c, v)
       /\ \A p \in Callers :
             hist'[p] # hist[p] =>
                LET limit == IF p[1] = "login" THEN 5 ELSE IF p[1] = "ws" THEN 60 ELSE 20
                    window == IF p[1] = "login" THEN 60 ELSE IF p[1] = "ws" THEN 30 ELSE 10
                    own == {i \in 1..Len(hist[p]) :
                               hist[p][i].ok /\ hist[p][i].t >= now - window}
                IN  hist'[p][Len(hist'[p])].ok = (Cardinality(own) < limit)]_vars

\* With the send budget of conversation "1" and user "1" used up and its
\* other two budgets short of their limits by one call, a send has been
\* rejected and a login attempt from the address "1" and an event of user
\* "1" have been admitted.
FamiliesWitness ==
    LET l == hist[<<"login", <<(<<"1">>)>> >>]
        g == hist[<<"ws", <<(<<"1">>)>> >>]
        m == hist[<<"msg", <<(<<"1">>), (<<"1">>)>> >>]
    IN  /\ Len(l) = LOGIN_ATTEMPT_LIMIT /\ l[Len(l)].ok /\ ~l[Len(l)].warm
        /\ Len(g) = WS_EVENT_LIMIT /\ g[Len(g)].ok /\ ~g[Len(g)].warm
        /\ Len(m) = MESSAGE_EVENT_LIMIT + 1 /\ ~m[Len(m)].ok

(***************************************************************************)
(* allow called from several threads.  A call reads time.monotonic() (line  *)
(* 18) and then takes the lock (line 19); the body under the lock works     *)
(* with the instant read before.  The login endpoint is a plain function,   *)
(* which the server runs on worker threads.                                 *)
(***************************************************************************)
ThreadsInit ==
    /\ events = <<>>
    /\ now = 0
    /\ hist = [k \in Keys |-> <<>>]
    /\ waiting = [th \in Threads |-> NoCall]
    /\ lim \in 1..MaxLimit
    /\ win \in 1..MaxWindow
    /\ SystemIdle
    /\ client = Readers

\* rate_limiter.py:18: the thread enters allow(k, lim, win) and reads the clock.
ReadClock(th, k) ==
    /\ ~waiting[th].busy
    /\ CallsOn(Keys) + Cardinality({x \in Threads : waiting[x].busy}) < MaxCalls
    /\ waiting' = [waiting EXCEPT ![th] = [key |-> k, t |-> now, busy |-> TRUE]]
    /\ UNCHANGED <<events, now, hist, lim, win>>
    /\ UNCHANGED sysvars

\* rate_limiter.py:19-29: the thread holds the lock from the lookup to the
\* return.
Locked(th) ==
    /\ waiting[th].busy
    /\ LET k == waiting[th].key
           r == allow(events, k, lim, win, waiting[th].t)
       IN  /\ events' = r.events
           /\ hist' = [hist EXCEPT ![k] = Append(@, [t |-> waiting[th].t, ok |-> r.ok])]
    /\ waiting' = [waiting EXCEPT ![th] = NoCall]
    /\ UNCHANGED <<now, lim, win>>
    /\ UNCHANGED sysvars

ThreadsNext ==
    \/ Tick
    \/ \E th \in Threads, k \in Keys : ReadClock(th, k)
    \/ \E th \in Threads : Locked(th)

SpecThreads == ThreadsInit /\ [][ThreadsNext]_vars

\* C24: whatever the order in which concurrent callers read the clock and take
\* the lock, the admitted instants recorded for a key that lie less than win
\* apart never number more than lim.
AdmittedWithinWindow ==
    \A k \in Keys, x \in 0..MaxTime :
        Cardinality({i \in 1..Len(hist[k]) :
                        hist[k][i].ok /\ hist[k][i].t >= x /\ hist[k][i].t < x + win}) <= lim

====
